---- MODULE Spec2Model ----
(***************************************************************************)
(* Model of the decision core of Agentos/orchestrator.py: the scheduler,   *)
(* the content selector, the validator, the duplicate detector and the     *)
(* run_daily workflow with its two persistent stores (the state document   *)
(* and the posts database).                                                *)
(*                                                                         *)
(* Time is counted in minutes of local wall-clock time since midnight of   *)
(* day 0 (daylight-saving shifts are not modelled).  A Python Optional is   *)
(* a sequence of length 0 (None) or 1.                                     *)
(***************************************************************************)
EXTENDS Integers, Sequences, FiniteSets, TLC

VARIABLES
    state_file,     \* orchestrator_state.json
    posts_db,       \* posts_database.json: the "posts" list
    now,            \* the wall clock, datetime.now(self.timezone)
    pc,             \* position of the run_daily invocation
    attempt,        \* run_daily: loop variable of the attempt loop
    state,          \* run_daily: the document loaded at line 893
    content_type,   \* run_daily: the selected type
    content,        \* run_daily: Optional candidate
    quality_score,  \* run_daily: score of the latest validate_content call
    tweet_id,       \* run_daily: Optional id returned by post_to_x
    \* history variables (observations of the run, not program state)
    preState,       \* state_file when the invocation began
    prePosts,       \* posts_db when the invocation began
    lastAttempt,    \* what the latest attempt of the loop ended in
    lastValid,      \* Optional [content, fs, ok, score] of the latest validation
    dupVerdict,     \* check_duplicates' verdict on the current candidate
    dupHits,        \* attempts of this invocation that ended in a duplicate hit
    dupReport,      \* check_duplicates' reason, whether it asked for an embedding, and the one it got
    genCalls,       \* calls of call_agent in this invocation
    pubCalls,       \* calls of post_to_x in this invocation
    bySchedule,     \* should_post_now said yes because the slot was reached
    outcome,        \* how the invocation ended
    published,      \* log of every successful publish so far
    \* the process around the invocation
    environ,        \* os.environ after load_dotenv: which credentials are set
    process,        \* the entry point: how far it is, the orchestrator it built
    other           \* the locals of a second, suspended run_daily invocation

vars == <<state_file, posts_db, now, pc, attempt, state, content_type, content,
          quality_score, tweet_id, preState, prePosts, lastAttempt, lastValid,
          dupVerdict, dupHits, dupReport, genCalls, pubCalls, bySchedule,
          outcome, published, environ, process, other>>

progVars == <<pc, attempt, state, content_type, content, quality_score, tweet_id>>
histVars == <<preState, prePosts, lastAttempt, lastValid, dupVerdict, dupHits,
              dupReport, genCalls, pubCalls, bySchedule, outcome>>
deployVars == <<environ, process, other>>

----------------------------------------------------------------------------
(* Bounds of the model *)

\* successful publishes after which no further invocation starts
MaxPosts == 2
\* update_state_after_post calls made in a row on one state document
MaxUpdates == 10
\* posts recorded in the posts database over its long history
MaxRecords == 3
\* records in the posts database when run_weekly_analysis reads it
MaxAnalysed == 3
\* times the processor passes from one run_daily invocation to the other
MaxSwitches == 2
\* largest week_counts entry drawn for the quota rule
MaxWeekCount == 4
\* update_state_after_post calls made on a stored topic list
MaxTopicUpdates == 5
\* hours of the worker loop that are followed on the clock
MaxWakeUps == 3
\* days after the first on which the daily cycles are followed
MaxWeekDays == 8

----------------------------------------------------------------------------
(* Time *)

MinutesPerHour == 60 * 1
MinutesPerDay == 24 * 60

\* datetime.date() / strftime("%Y-%m-%d"): the local calendar day
DateOf(t) == t \div MinutesPerDay

None == <<>>
Some(x) == <<x>>
IsSet(opt) == opt # <<>>
Val(opt) == opt[1]

----------------------------------------------------------------------------
(* Configuration: self.config *)

ContentTypes == {"news", "curator", "meme", "image"}

\* base_weights, in units of 1/4000 (0.35 = 1400/4000), so that the factors
\* 0.3, 1.5 and 0.5 keep every adjusted weight an integer
WeightScale == 4000 * 1
base_weights ==
    [t \in ContentTypes |->
        CASE t = "news" -> 1400 [] t = "curator" -> 1200
          [] t = "meme" -> 800 [] t = "image" -> 600]

min_quality_score == 6
max_regeneration_attempts == 2
track_days == 30
recent_topics_size == 10
time_variance_minutes == 30
TweetLimit == 280
MinGapHours == 20
Last7Cap == 7
CuratedCap == 50
WeekLengthDays == 7

\* posting_times: window |-> <<start_hour, end_hour>>
WindowNames == {"morning", "lunch", "afternoon", "evening", "night"}
posting_hours ==
    [w \in WindowNames |->
        CASE w = "morning" -> <<8, 10>> [] w = "lunch" -> <<12, 13>>
          [] w = "afternoon" -> <<15, 17>> [] w = "evening" -> <<18, 20>>
          [] w = "night" -> <<21, 22>>]

\* week_start.replace(tzinfo=self.timezone) attaches the zone's local mean
\* time (+01:12) instead of CET (+01:00): the week-start instant lies this
\* many minutes before local midnight of week_start_date
LmtSkewMinutes == 12


----------------------------------------------------------------------------
(* Texts.  A text is abstracted to what the code reads of it: its identity *)
(* (for the hash), its length, whether it is empty after strip(), its      *)
(* quote counts and its whitespace-separated words.                        *)

Word(w, len, upper) == [w |-> w, len |-> len, upper |-> upper]

Txt(id, chars, blank, dq, sq, words) ==
    [id |-> id, chars |-> chars, blank |-> blank, dquotes |-> dq,
     squotes |-> sq, words |-> words]

ShortPost ==
    Txt("Short valid post", 16, FALSE, 0, 0,
        <<Word("Short", 5, TRUE), Word("valid", 5, FALSE), Word("post", 4, FALSE)>>)
OtherPost ==
    Txt("Agents Ship Daily Builds", 24, FALSE, 0, 0,
        <<Word("Agents", 6, TRUE), Word("Ship", 4, TRUE),
          Word("Daily", 5, TRUE), Word("Builds", 6, TRUE)>>)
LongPost ==
    Txt("overlong post of 281 characters", 281, FALSE, 0, 0,
        <<Word("Overlong", 8, TRUE)>>)
EmptyText == Txt("", 0, TRUE, 0, 0, <<>>)
\* the fixed caption of image candidates
ImageCaption ==
    Txt("The future of AI agents >", 25, FALSE, 0, 0,
        <<Word("The", 3, TRUE), Word("future", 6, FALSE), Word("of", 2, FALSE),
          Word("AI", 2, TRUE), Word("agents", 6, FALSE), Word(">", 1, FALSE)>>)
CommentaryA ==
    Txt("Wild demo via @alice", 20, FALSE, 0, 0,
        <<Word("Wild", 4, TRUE), Word("demo", 4, FALSE), Word("via", 3, FALSE),
          Word("@alice", 6, FALSE)>>)
CommentaryB ==
    Txt("That's huge via @alice", 22, FALSE, 0, 1,
        <<Word("That's", 6, TRUE), Word("huge", 4, FALSE), Word("via", 3, FALSE),
          Word("@alice", 6, FALSE)>>)
\* texts whose embeddings lie at chosen angles to the one of ShortPost:
\* cosine 0.9, cosine 0.85 (the threshold itself), and no direction at all
NearPost ==
    Txt("Short and valid post", 20, FALSE, 0, 0,
        <<Word("Short", 5, TRUE), Word("and", 3, FALSE), Word("valid", 5, FALSE),
          Word("post", 4, FALSE)>>)
EdgePost ==
    Txt("A short post that is valid", 26, FALSE, 0, 0,
        <<Word("A", 1, TRUE), Word("short", 5, FALSE), Word("post", 4, FALSE)>>)
FlatPost ==
    Txt("...", 3, FALSE, 0, 0, <<Word("...", 3, FALSE)>>)
\* backup_content.json as _init_databases writes it: first entry per type
BackupNewsText ==
    Txt("AI agents are transforming how we work. ... it's getting wild.",
        95, FALSE, 0, 1,
        <<Word("AI", 2, TRUE), Word("agents", 6, FALSE), Word("The", 3, TRUE),
          Word("it's", 4, FALSE)>>)
BackupMemeText ==
    Txt("me: automates everything / also me: spends 10 hours debugging",
        74, FALSE, 0, 0,
        <<Word("me:", 3, FALSE), Word("automates", 9, FALSE)>>)

\* _compute_text_hash: SHA-256 of the text, taken as collision-free
compute_text_hash(text) == <<"sha256", text.id>>

\* what the embedding service returns for a text when it answers
EmbeddingOf(text) ==
    CASE text = ShortPost -> <<10, 0, 0>>
      [] text = OtherPost -> <<9, 4, 0>>
      [] text = LongPost -> <<0, 0, 10>>
      [] text = ImageCaption -> <<0, 10, 0>>
      [] text = CommentaryA -> <<-10, 0, 0>>
      [] text = CommentaryB -> <<0, -10, 0>>
      [] text = BackupNewsText -> <<0, 6, 8>>
      [] text = BackupMemeText -> <<0, -6, 8>>
      [] text = NearPost -> <<18, 6, 6, 2, 0>>
      [] text = EdgePost -> <<17, 10, 3, 1, 1>>
      [] text = FlatPost -> <<0, 0, 0>>
      [] OTHER -> <<0, 0, 0>>

\* _get_embedding: the vector, or [] when the request fails
get_embedding_outcomes(text) == {<<>>, EmbeddingOf(text)}

----------------------------------------------------------------------------
(* Candidates *)

Metadata(agent, source, otid) ==
    [agent |-> agent, source |-> source, original_tweet_id |-> otid]

Candidate(text, media, meta) ==
    [text |-> text, media_path |-> media, metadata |-> meta]

\* a media path, known by its file name and its suffix
MediaPng == [name |-> "media_1.png", suffix |-> ".png"]
MediaWebp == [name |-> "media_2.webp", suffix |-> ".webp"]
valid_extensions == {".mp4", ".jpg", ".jpeg", ".png", ".gif", ".webm"}

\* what the file system shows validate_content of a media path
FsStates ==
    {[exists |-> FALSE, oversized |-> FALSE],
     [exists |-> TRUE, oversized |-> FALSE],
     [exists |-> TRUE, oversized |-> TRUE]}
NoMediaFs == [exists |-> FALSE, oversized |-> FALSE]
FsOutcomes(cand) == IF IsSet(cand.media_path) THEN FsStates ELSE {NoMediaFs}

\* texts the news agent and the meme agent may return
NewsTexts == {ShortPost, LongPost}
MemeTexts == {ShortPost, OtherPost, EmptyText}

\* call_agent: every result the sub-agent of a type may give (None on failure)
call_agent_outcomes(ct) ==
    CASE ct = "news" ->
            {None} \cup
            {Some(Candidate(t, None, Metadata("news_hunter", "serper_search", None)))
                : t \in NewsTexts}
      [] ct = "meme" ->
            {None} \cup
            {Some(Candidate(t, None, Metadata("meme_lord", "generated", None)))
                : t \in MemeTexts}
      [] ct = "image" ->
            {None,
             Some(Candidate(ImageCaption, Some(MediaPng),
                            Metadata("image_generator", "midjourney", None)))}
      [] ct = "curator" ->
            {None,
             Some(Candidate(CommentaryA, None,
                            Metadata("content_curator", "x_viral", Some("tw1")))),
             Some(Candidate(CommentaryB, Some(MediaWebp),
                            Metadata("content_curator", "x_viral", Some("tw1"))))}

\* backup_content.json
backup_list(ct) ==
    CASE ct = "news" -> <<BackupNewsText>>
      [] ct = "meme" -> <<BackupMemeText>>
      [] OTHER -> <<>>

\* get_backup_content
get_backup_content(ct) ==
    IF backup_list(ct) = <<>>
    THEN None
    ELSE Some(Candidate(backup_list(ct)[1], None,
                        Metadata("backup", "backup_content", None)))

----------------------------------------------------------------------------
(* Sequence helpers *)

\* Python's s[-n:] for n > 0
LastN(s, n) == IF Len(s) <= n THEN s ELSE SubSeq(s, Len(s) - n + 1, Len(s))
\* Python's s[:n]
FirstN(s, n) == IF Len(s) <= n THEN s ELSE SubSeq(s, 1, n)

RECURSIVE SumTo(_, _)
\* sum of f[1..n]
SumTo(f, n) == IF n = 0 THEN 0 ELSE f[n] + SumTo(f, n - 1)

MinOf(a, b) == IF a <= b THEN a ELSE b

----------------------------------------------------------------------------
(* Validator *)

\* validate_content with the length test written `>= 280`
validate_content_length_exclusive(cand, fs) ==
    LET text == cand.text
        media_path == cand.media_path
        lengthCut == IF text.chars >= TweetLimit THEN 5 ELSE 0
        quoteCut == IF text.dquotes % 2 # 0 \/ text.squotes % 2 # 0 THEN 1 ELSE 0
        mediaCut ==
            IF ~IsSet(media_path) THEN 0
            ELSE IF ~fs.exists THEN 3
            ELSE (IF fs.oversized THEN 2 ELSE 0)
                 + (IF Val(media_path).suffix \notin valid_extensions THEN 2 ELSE 0)
        score == 10 - lengthCut - quoteCut - mediaCut
    IN  IF text.blank
        THEN [is_valid |-> FALSE, quality_score |-> 0, reason |-> "Empty text"]
        ELSE IF score >= min_quality_score
        THEN [is_valid |-> TRUE, quality_score |-> score, reason |-> "OK"]
        ELSE [is_valid |-> FALSE, quality_score |-> score, reason |-> "issues"]

\* validate_content with a length deduction of 3
validate_content_length_costs_three(cand, fs) ==
    LET text == cand.text
        media_path == cand.media_path
        lengthCut == IF text.chars > TweetLimit THEN 3 ELSE 0
        quoteCut == IF text.dquotes % 2 # 0 \/ text.squotes % 2 # 0 THEN 1 ELSE 0
        mediaCut ==
            IF ~IsSet(media_path) THEN 0
            ELSE IF ~fs.exists THEN 3
            ELSE (IF fs.oversized THEN 2 ELSE 0)
                 + (IF Val(media_path).suffix \notin valid_extensions THEN 2 ELSE 0)
        score == 10 - lengthCut - quoteCut - mediaCut
    IN  IF text.blank
        THEN [is_valid |-> FALSE, quality_score |-> 0, reason |-> "Empty text"]
        ELSE IF score >= min_quality_score
        THEN [is_valid |-> TRUE, quality_score |-> score, reason |-> "OK"]
        ELSE [is_valid |-> FALSE, quality_score |-> score, reason |-> "issues"]

\* validate_content: (is_valid, quality_score, reason); fs is what the file
\* system answers for the media path
validate_content(cand, fs) ==
    LET text == cand.text
        media_path == cand.media_path
        lengthCut == IF text.chars > TweetLimit THEN 5 ELSE 0
        quoteCut == IF text.dquotes % 2 # 0 \/ text.squotes % 2 # 0 THEN 1 ELSE 0
        mediaCut ==
            IF ~IsSet(media_path) THEN 0
            ELSE IF ~fs.exists THEN 3
            ELSE (IF fs.oversized THEN 2 ELSE 0)
                 + (IF Val(media_path).suffix \notin valid_extensions THEN 2 ELSE 0)
        score == 10 - lengthCut - quoteCut - mediaCut
    IN  IF text.blank
        THEN [is_valid |-> FALSE, quality_score |-> 0, reason |-> "Empty text"]
        ELSE IF score >= min_quality_score
        THEN [is_valid |-> TRUE, quality_score |-> score, reason |-> "OK"]
        ELSE [is_valid |-> FALSE, quality_score |-> score, reason |-> "issues"]

----------------------------------------------------------------------------
(* Duplicate detector *)

Dot(v1, v2) == SumTo([i \in 1..MinOf(Len(v1), Len(v2)) |-> v1[i] * v2[i]],
                     MinOf(Len(v1), Len(v2)))

\* the comparison with the threshold made inclusive (>= 0.85)
SimilarityAtOrAboveThreshold(vec1, vec2) ==
    IF vec1 = <<>> \/ vec2 = <<>> THEN FALSE
    ELSE LET dot_product == Dot(vec1, vec2)
             sq1 == Dot(vec1, vec1)
             sq2 == Dot(vec2, vec2)
         IN  IF sq1 = 0 \/ sq2 = 0 THEN FALSE
             ELSE dot_product > 0
                  /\ 10000 * dot_product * dot_product >= 7225 * sq1 * sq2

\* _cosine_similarity(vec1, vec2) > duplicate_similarity_threshold (0.85),
\* decided without the square root: for a positive dot product,
\* dot / (m1 * m2) > 85/100  iff  10000 * dot^2 > 7225 * m1^2 * m2^2
SimilarityAboveThreshold(vec1, vec2) ==
    IF vec1 = <<>> \/ vec2 = <<>> THEN FALSE
    ELSE LET dot_product == Dot(vec1, vec2)
             sq1 == Dot(vec1, vec1)
             sq2 == Dot(vec2, vec2)
         IN  IF sq1 = 0 \/ sq2 = 0 THEN FALSE
             ELSE dot_product > 0
                  /\ 10000 * dot_product * dot_product > 7225 * sq1 * sq2

\* the exact-match layer looking only at records that carry an embedding
exact_text_match_needs_embedding(cand, posts) ==
    \E i \in 1..Len(posts) :
        /\ posts[i].embedding # <<>>
        /\ posts[i].text_hash = compute_text_hash(cand.text)

\* check_duplicates lines 627-631: some record has the candidate's hash
exact_text_match(cand, posts) ==
    \E i \in 1..Len(posts) : posts[i].text_hash = compute_text_hash(cand.text)

\* no check_duplicates call has reported yet
NoReport == [reason |-> "none", embedding_requested |-> FALSE, embedding |-> <<>>]

\* check_duplicates with the source-post layer placed inside the embedding
\* branch, so that it is skipped along with the semantic layer
check_duplicates_source_needs_embedding(cand, posts, embedding, t) ==
    LET cutoff_date == t - track_days * MinutesPerDay
        exact == exact_text_match(cand, posts)
        semantic ==
            /\ embedding # <<>>
            /\ \E i \in 1..Len(posts) :
                  /\ ~(posts[i].posted_at < cutoff_date)
                  /\ posts[i].embedding # <<>>
                  /\ SimilarityAboveThreshold(embedding, posts[i].embedding)
        original_tweet_id == cand.metadata.original_tweet_id
        sameSource ==
            /\ embedding # <<>>
            /\ cand.metadata.agent = "content_curator"
            /\ IsSet(original_tweet_id)
            /\ \E i \in 1..Len(posts) :
                  posts[i].metadata.original_tweet_id = original_tweet_id
    IN  IF exact THEN [is_duplicate |-> TRUE, reason |-> "Exact text match"]
        ELSE IF semantic THEN [is_duplicate |-> TRUE, reason |-> "Semantic similarity"]
        ELSE IF sameSource
        THEN [is_duplicate |-> TRUE, reason |-> "Same source tweet already curated"]
        ELSE [is_duplicate |-> FALSE, reason |-> "No duplicates"]

\* check_duplicates: (is_duplicate, reason); embedding is what _get_embedding
\* returns for the candidate's text, t the clock
check_duplicates(cand, posts, embedding, t) ==
    LET cutoff_date == t - track_days * MinutesPerDay
        exact == exact_text_match(cand, posts)
        semantic ==
            /\ embedding # <<>>
            /\ \E i \in 1..Len(posts) :
                  /\ ~(posts[i].posted_at < cutoff_date)
                  /\ posts[i].embedding # <<>>
                  /\ SimilarityAboveThreshold(embedding, posts[i].embedding)
        original_tweet_id == cand.metadata.original_tweet_id
        sameSource ==
            /\ cand.metadata.agent = "content_curator"
            /\ IsSet(original_tweet_id)
            /\ \E i \in 1..Len(posts) :
                  posts[i].metadata.original_tweet_id = original_tweet_id
    IN  IF exact THEN [is_duplicate |-> TRUE, reason |-> "Exact text match"]
        ELSE IF semantic THEN [is_duplicate |-> TRUE, reason |-> "Semantic similarity"]
        ELSE IF sameSource
        THEN [is_duplicate |-> TRUE, reason |-> "Same source tweet already curated"]
        ELSE [is_duplicate |-> FALSE, reason |-> "No duplicates"]

----------------------------------------------------------------------------
(* State document *)

ZeroCounts == [t \in ContentTypes |-> 0]

\* _init_databases: the document written when none exists, at time t
initial_state(t) ==
    [last_post_time |-> None,
     last_7_days_posts |-> <<>>,
     week_counts |-> ZeroCounts,
     recent_topics |-> <<>>,
     curated_tweet_ids |-> <<>>,
     engagement_by_type |->
        [ct \in ContentTypes |-> [avg_likes |-> 0, avg_rt |-> 0, count |-> 0]],
     next_post_scheduled |-> None,
     preferred_time_windows |-> <<"morning", "evening">>,
     week_start_date |-> DateOf(t)]

\* load_state: days elapsed since the week-start instant
days_since_week_start(doc, t) ==
    (t - (doc.week_start_date * MinutesPerDay - LmtSkewMinutes)) \div MinutesPerDay

\* load_state with the elapsed-days test lost: it resets on every load
load_state_always_resets(doc, t) ==
    [doc EXCEPT !.week_counts = ZeroCounts, !.week_start_date = DateOf(t)]

\* load_state with the reset one day late (`> 7`)
load_state_resets_after_eight_days(doc, t) ==
    IF days_since_week_start(doc, t) > WeekLengthDays
    THEN [doc EXCEPT !.week_counts = ZeroCounts, !.week_start_date = DateOf(t)]
    ELSE doc

\* load_state: the document it returns (and, after a reset, has saved)
load_state(doc, t) ==
    IF days_since_week_start(doc, t) >= WeekLengthDays
    THEN [doc EXCEPT !.week_counts = ZeroCounts, !.week_start_date = DateOf(t)]
    ELSE doc

----------------------------------------------------------------------------
(* Scheduler *)

\* should_post_now lines 293-304: the slot has been reached
ScheduleReached(doc, t) ==
    IsSet(doc.next_post_scheduled) /\ t >= Val(doc.next_post_scheduled)

\* should_post_now that takes a set slot as reached without comparing it
should_post_now_slot_unchecked(doc, t) ==
    IF IsSet(doc.next_post_scheduled)
    THEN TRUE
    ELSE IF IsSet(doc.last_post_time)
    THEN LET last_post == Val(doc.last_post_time)
         IN  IF DateOf(last_post) = DateOf(t) THEN FALSE
             ELSE IF t - last_post < MinGapHours * MinutesPerHour THEN FALSE
             ELSE TRUE
    ELSE TRUE

\* should_post_now with the two blocks swapped: the same-day rule and the
\* 20-hour rule are applied before the slot is looked at
should_post_now_gap_first(doc, t) ==
    IF IsSet(doc.last_post_time)
       /\ (\/ DateOf(Val(doc.last_post_time)) = DateOf(t)
           \/ t - Val(doc.last_post_time) < MinGapHours * MinutesPerHour)
    THEN FALSE
    ELSE IF IsSet(doc.next_post_scheduled)
    THEN t >= Val(doc.next_post_scheduled)
    ELSE TRUE

\* should_post_now with the gap test written `<= 20`: a post exactly 20
\* hours old still blocks
should_post_now_gap_inclusive(doc, t) ==
    IF IsSet(doc.next_post_scheduled)
    THEN t >= Val(doc.next_post_scheduled)
    ELSE IF IsSet(doc.last_post_time)
    THEN LET last_post == Val(doc.last_post_time)
         IN  IF DateOf(last_post) = DateOf(t) THEN FALSE
             ELSE IF t - last_post <= MinGapHours * MinutesPerHour THEN FALSE
             ELSE TRUE
    ELSE TRUE

\* should_post_now with the slot comparison reversed (now <= scheduled_time)
should_post_now_slot_reversed(doc, t) ==
    IF IsSet(doc.next_post_scheduled)
    THEN t <= Val(doc.next_post_scheduled)
    ELSE IF IsSet(doc.last_post_time)
    THEN LET last_post == Val(doc.last_post_time)
         IN  IF DateOf(last_post) = DateOf(t) THEN FALSE
             ELSE IF t - last_post < MinGapHours * MinutesPerHour THEN FALSE
             ELSE TRUE
    ELSE TRUE

\* should_post_now, on the document load_state returned
should_post_now(doc, t) ==
    IF IsSet(doc.next_post_scheduled)
    THEN t >= Val(doc.next_post_scheduled)
    ELSE IF IsSet(doc.last_post_time)
    THEN LET last_post == Val(doc.last_post_time)
         IN  IF DateOf(last_post) = DateOf(t) THEN FALSE
             ELSE IF t - last_post < MinGapHours * MinutesPerHour THEN FALSE
             ELSE TRUE
    ELSE TRUE

\* the hours random.randint(start_hour, end_hour - 1) can draw in a window
WindowHours(w) == posting_hours[w][1] .. (posting_hours[w][2] - 1)

\* schedule_next_post without the timedelta(days=1): the slot is put on the
\* day of current_time
schedule_next_post_same_day(current_time, base_hour, base_minute, variance_minutes) ==
    DateOf(current_time) * MinutesPerDay
    + base_hour * MinutesPerHour + base_minute + variance_minutes

\* schedule_next_post with the jitter added as timedelta(hours=...)
schedule_next_post_jitter_in_hours(current_time, base_hour, base_minute, variance_minutes) ==
    LET tomorrow == current_time + MinutesPerDay
    IN  DateOf(tomorrow) * MinutesPerDay
        + base_hour * MinutesPerHour + base_minute
        + variance_minutes * MinutesPerHour

\* schedule_next_post, for one draw of hour, minute and jitter
schedule_next_post(current_time, base_hour, base_minute, variance_minutes) ==
    LET tomorrow == current_time + MinutesPerDay
    IN  DateOf(tomorrow) * MinutesPerDay
        + base_hour * MinutesPerHour + base_minute + variance_minutes

----------------------------------------------------------------------------
(* Content selector *)

\* _days_since_content_type without reversed(): the index is counted from
\* the oldest entry
days_since_content_type_from_oldest(last_7_days, ct) ==
    LET n == Len(last_7_days)
        hits == {i \in 0..(n - 1) : last_7_days[i + 1].type = ct}
    IN  IF hits = {} THEN 7
        ELSE CHOOSE i \in hits : \A j \in hits : i <= j

\* _days_since_content_type: index from the newest entry, 7 when absent
days_since_content_type(last_7_days, ct) ==
    LET n == Len(last_7_days)
        hits == {i \in 0..(n - 1) : last_7_days[n - i].type = ct}
    IN  IF hits = {} THEN 7
        ELSE CHOOSE i \in hits : \A j \in hits : i <= j

\* expected_weekly rounded to whole posts: 3, 2, 1, 1
expected_weekly_rounded ==
    [t \in ContentTypes |->
        CASE t = "news" -> 30 [] t = "curator" -> 20
          [] t = "meme" -> 10 [] t = "image" -> 10]

\* expected_weekly, in tenths: 2.5, 2.1, 1.4, 1.0
expected_weekly_tenths ==
    [t \in ContentTypes |->
        CASE t = "news" -> 25 [] t = "curator" -> 21
          [] t = "meme" -> 14 [] t = "image" -> 10]

\* select_content_type with rule 1 written as a subtraction of 0.3
adjusted_weight_subtracts_penalty(doc, ct) ==
    LET last_7_days == doc.last_7_days_posts
        n == Len(last_7_days)
        yesterday_type == IF n >= 1 THEN Some(last_7_days[n].type) ELSE None
        day_before_type == IF n >= 2 THEN Some(last_7_days[n - 1].type) ELSE None
        w0 == base_weights[ct]
        w1 == IF yesterday_type = Some(ct) THEN w0 - (WeightScale * 3) \div 10 ELSE w0
        w2 == IF yesterday_type = Some(ct) /\ day_before_type = Some(ct)
              THEN 0 ELSE w1
        w3 == IF days_since_content_type(last_7_days, ct) >= 4
              THEN (w2 * 3) \div 2 ELSE w2
        w4 == IF doc.week_counts[ct] * 10 > expected_weekly_tenths[ct]
              THEN w3 \div 2 ELSE w3
    IN  w4

\* select_content_type without rule 2, the repetition veto
adjusted_weight_without_veto(doc, ct) ==
    LET last_7_days == doc.last_7_days_posts
        n == Len(last_7_days)
        yesterday_type == IF n >= 1 THEN Some(last_7_days[n].type) ELSE None
        w0 == base_weights[ct]
        w1 == IF yesterday_type = Some(ct) THEN (w0 * 3) \div 10 ELSE w0
        w3 == IF days_since_content_type(last_7_days, ct) >= 4
              THEN (w1 * 3) \div 2 ELSE w1
        w4 == IF doc.week_counts[ct] * 10 > expected_weekly_tenths[ct]
              THEN w3 \div 2 ELSE w3
    IN  w4

\* select_content_type with rule 4 excluding a type over its quota
adjusted_weight_quota_excludes(doc, ct) ==
    LET last_7_days == doc.last_7_days_posts
        n == Len(last_7_days)
        yesterday_type == IF n >= 1 THEN Some(last_7_days[n].type) ELSE None
        day_before_type == IF n >= 2 THEN Some(last_7_days[n - 1].type) ELSE None
        w0 == base_weights[ct]
        w1 == IF yesterday_type = Some(ct) THEN (w0 * 3) \div 10 ELSE w0
        w2 == IF yesterday_type = Some(ct) /\ day_before_type = Some(ct)
              THEN 0 ELSE w1
        w3 == IF days_since_content_type(last_7_days, ct) >= 4
              THEN (w2 * 3) \div 2 ELSE w2
        w4 == IF doc.week_counts[ct] * 10 > expected_weekly_tenths[ct]
              THEN 0 ELSE w3
    IN  w4

\* select_content_type lines 351-381: the weight of one type after rules 1-4
adjusted_weight(doc, ct) ==
    LET last_7_days == doc.last_7_days_posts
        n == Len(last_7_days)
        yesterday_type == IF n >= 1 THEN Some(last_7_days[n].type) ELSE None
        day_before_type == IF n >= 2 THEN Some(last_7_days[n - 1].type) ELSE None
        w0 == base_weights[ct]
        w1 == IF yesterday_type = Some(ct) THEN (w0 * 3) \div 10 ELSE w0
        w2 == IF yesterday_type = Some(ct) /\ day_before_type = Some(ct)
              THEN 0 ELSE w1
        w3 == IF days_since_content_type(last_7_days, ct) >= 4
              THEN (w2 * 3) \div 2 ELSE w2
        w4 == IF doc.week_counts[ct] * 10 > expected_weekly_tenths[ct]
              THEN w3 \div 2 ELSE w3
    IN  w4

RECURSIVE SumOver(_, _)
\* sum of f over the finite set S
SumOver(f, S) ==
    IF S = {} THEN 0
    ELSE LET x == CHOOSE y \in S : TRUE IN f[x] + SumOver(f, S \ {x})

\* select_content_type lines 383-391: the weights handed to random.choices
\* and their total (normalized[ct] = weights[ct] / total)
selection_weights(doc) ==
    LET weights == [ct \in ContentTypes |-> adjusted_weight(doc, ct)]
        total == SumOver(weights, ContentTypes)
    IN  IF total = 0
        THEN [weights |-> base_weights, total |-> SumOver(base_weights, ContentTypes)]
        ELSE [weights |-> weights, total |-> total]

\* the types random.choices can return: those of positive probability
select_content_type(doc) ==
    {ct \in ContentTypes : selection_weights(doc).weights[ct] > 0}

----------------------------------------------------------------------------
(* State updates after a publish *)

IsTopic(word) == word.len > 3 /\ word.upper

\* text.split() filtered to capitalised words longer than 3 characters
TopicsOf(text) ==
    LET picked == SelectSeq(text.words, IsTopic)
    IN  [i \in 1..Len(picked) |-> picked[i].w]

\* update_state_after_post with the cap written [:7]: the oldest entries
\* are kept and the newest dropped
update_state_after_post_keeps_oldest(doc, ct, cand, tid, t, next_post_time) ==
    LET entry == [type |-> ct, date |-> DateOf(t), tweet_id |-> tid]
        posts7 == FirstN(Append(doc.last_7_days_posts, entry), Last7Cap)
        topics == FirstN(TopicsOf(cand.text), 3)
        recent == LastN(doc.recent_topics \o topics, recent_topics_size)
        curated ==
            IF ct = "curator" /\ IsSet(cand.metadata.original_tweet_id)
            THEN LastN(Append(doc.curated_tweet_ids,
                              Val(cand.metadata.original_tweet_id)), CuratedCap)
            ELSE doc.curated_tweet_ids
    IN  [doc EXCEPT !.last_post_time = Some(t),
                    !.last_7_days_posts = posts7,
                    !.week_counts[ct] = @ + 1,
                    !.recent_topics = recent,
                    !.curated_tweet_ids = curated,
                    !.next_post_scheduled = Some(next_post_time)]

\* update_state_after_post with the two lists cut from the front
\* ([:recent_topics_size] and [:50]): a full list takes no new entry
update_state_after_post_cuts_newest(doc, ct, cand, tid, t, next_post_time) ==
    LET entry == [type |-> ct, date |-> DateOf(t), tweet_id |-> tid]
        posts7 == LastN(Append(doc.last_7_days_posts, entry), Last7Cap)
        topics == FirstN(TopicsOf(cand.text), 3)
        recent == FirstN(doc.recent_topics \o topics, recent_topics_size)
        curated ==
            IF ct = "curator" /\ IsSet(cand.metadata.original_tweet_id)
            THEN FirstN(Append(doc.curated_tweet_ids,
                               Val(cand.metadata.original_tweet_id)), CuratedCap)
            ELSE doc.curated_tweet_ids
    IN  [doc EXCEPT !.last_post_time = Some(t),
                    !.last_7_days_posts = posts7,
                    !.week_counts[ct] = @ + 1,
                    !.recent_topics = recent,
                    !.curated_tweet_ids = curated,
                    !.next_post_scheduled = Some(next_post_time)]

\* update_state_after_post: the document it builds and saves; t is the
\* clock, next_post_time the result of schedule_next_post(t)
update_state_after_post(doc, ct, cand, tid, t, next_post_time) ==
    LET entry == [type |-> ct, date |-> DateOf(t), tweet_id |-> tid]
        posts7 == LastN(Append(doc.last_7_days_posts, entry), Last7Cap)
        topics == FirstN(TopicsOf(cand.text), 3)
        recent == LastN(doc.recent_topics \o topics, recent_topics_size)
        curated ==
            IF ct = "curator" /\ IsSet(cand.metadata.original_tweet_id)
            THEN LastN(Append(doc.curated_tweet_ids,
                              Val(cand.metadata.original_tweet_id)), CuratedCap)
            ELSE doc.curated_tweet_ids
    IN  [doc EXCEPT !.last_post_time = Some(t),
                    !.last_7_days_posts = posts7,
                    !.week_counts[ct] = @ + 1,
                    !.recent_topics = recent,
                    !.curated_tweet_ids = curated,
                    !.next_post_scheduled = Some(next_post_time)]

IsRetained(cutoff_date, post) == post.posted_at > cutoff_date

RECURSIVE RetainedNewestFirst(_, _)
\* the retained records collected in the reverse of their stored order
RetainedNewestFirst(posts, cutoff_date) ==
    IF posts = <<>> THEN <<>>
    ELSE IF IsRetained(cutoff_date, Head(posts))
    THEN RetainedNewestFirst(Tail(posts), cutoff_date) \o <<Head(posts)>>
    ELSE RetainedNewestFirst(Tail(posts), cutoff_date)

RECURSIVE Retained(_, _)
\* the list comprehension of update_posts_database lines 801-804
Retained(posts, cutoff_date) ==
    IF posts = <<>> THEN <<>>
    ELSE IF IsRetained(cutoff_date, Head(posts))
    THEN <<Head(posts)>> \o Retained(Tail(posts), cutoff_date)
    ELSE Retained(Tail(posts), cutoff_date)

\* update_posts_database that records a post only when an embedding came
\* back for it
update_posts_database_needs_embedding(posts, ct, cand, tid, score, embedding, t) ==
    LET post_entry ==
            [post_id |-> tid,
             posted_at |-> t,
             content_type |-> ct,
             text |-> cand.text,
             text_hash |-> compute_text_hash(cand.text),
             embedding |-> embedding,
             media_url |-> cand.media_path,
             agent_used |-> cand.metadata.agent,
             metadata |-> cand.metadata,
             quality_score |-> score,
             engagement |-> [likes |-> 0, retweets |-> 0, views |-> 0]]
        cutoff_date == t - track_days * MinutesPerDay
    IN  IF embedding = <<>>
        THEN Retained(posts, cutoff_date)
        ELSE Retained(Append(posts, post_entry), cutoff_date)

\* update_posts_database that appends and never prunes
update_posts_database_without_pruning(posts, ct, cand, tid, score, embedding, t) ==
    Append(posts,
           [post_id |-> tid,
            posted_at |-> t,
            content_type |-> ct,
            text |-> cand.text,
            text_hash |-> compute_text_hash(cand.text),
            embedding |-> embedding,
            media_url |-> cand.media_path,
            agent_used |-> cand.metadata.agent,
            metadata |-> cand.metadata,
            quality_score |-> score,
            engagement |-> [likes |-> 0, retweets |-> 0, views |-> 0]])

\* update_posts_database: the posts list it saves
update_posts_database(posts, ct, cand, tid, score, embedding, t) ==
    LET post_entry ==
            [post_id |-> tid,
             posted_at |-> t,
             content_type |-> ct,
             text |-> cand.text,
             text_hash |-> compute_text_hash(cand.text),
             embedding |-> embedding,
             media_url |-> cand.media_path,
             agent_used |-> cand.metadata.agent,
             metadata |-> cand.metadata,
             quality_score |-> score,
             engagement |-> [likes |-> 0, retweets |-> 0, views |-> 0]]
        cutoff_date == t - track_days * MinutesPerDay
    IN  Retained(Append(posts, post_entry), cutoff_date)

----------------------------------------------------------------------------
(* Weekly analysis *)

\* timedelta(days=7) of line 987
AnalysisDays == 7

RECURSIVE GCD(_, _)
GCD(a, b) == IF b = 0 THEN a ELSE GCD(b, a % b)

\* total / n, Python's true division: the quotient in lowest terms
Quotient(total, n) ==
    [num |-> total \div GCD(total, n), den |-> n \div GCD(total, n)]

RECURSIVE Collected(_, _, _, _)
\* lines 988-1000: the values of one engagement field over the records of
\* type ct that are not older than the cutoff, in stored order
Collected(posts, ct, cutoff_date, field) ==
    IF posts = <<>> THEN <<>>
    ELSE IF Head(posts).posted_at < cutoff_date \/ Head(posts).content_type # ct
    THEN Collected(Tail(posts), ct, cutoff_date, field)
    ELSE <<Head(posts).engagement[field]>>
         \o Collected(Tail(posts), ct, cutoff_date, field)

\* the average replaced by the total
AverageAsTotal(values) ==
    IF values = <<>> THEN 0 ELSE Quotient(SumTo(values, Len(values)), 1)

\* lines 1007-1008: sum(values) / len(values) if values else 0
Average(values) ==
    IF values = <<>> THEN 0
    ELSE Quotient(SumTo(values, Len(values)), Len(values))

\* run_weekly_analysis that also starts a new week on every pass
run_weekly_analysis_resets_week(doc, posts, t) ==
    LET cutoff_date == t - AnalysisDays * MinutesPerDay
    IN  [load_state(doc, t) EXCEPT
            !.week_counts = ZeroCounts,
            !.week_start_date = DateOf(t),
            !.engagement_by_type =
                [ct \in ContentTypes |->
                    [avg_likes |-> Average(Collected(posts, ct, cutoff_date, "likes")),
                     avg_rt |-> Average(Collected(posts, ct, cutoff_date, "retweets")),
                     count |-> Len(Collected(posts, ct, cutoff_date, "likes"))]]]

\* run_weekly_analysis: the state document it saves
run_weekly_analysis(doc, posts, t) ==
    LET cutoff_date == t - AnalysisDays * MinutesPerDay
    IN  [load_state(doc, t) EXCEPT
            !.engagement_by_type =
                [ct \in ContentTypes |->
                    [avg_likes |-> Average(Collected(posts, ct, cutoff_date, "likes")),
                     avg_rt |-> Average(Collected(posts, ct, cutoff_date, "retweets")),
                     count |-> Len(Collected(posts, ct, cutoff_date, "likes"))]]]

----------------------------------------------------------------------------
(* The clock and the draws of the random source *)

\* the time at which the orchestrator is first constructed
StartTime == 14 * MinutesPerHour
\* the instants at which the clock is observed: the afternoon of the
\* construction (day 0, 14:00), the next morning (day 1, 08:00: 18 hours
\* later, on another date) and the same afternoon one week later
ClockInstants ==
    {StartTime,
     StartTime + 18 * MinutesPerHour,
     StartTime + WeekLengthDays * MinutesPerDay}

\* the draws <<window, hour, minute, jitter>> of schedule_next_post that are
\* explored: the earliest slot of a day (07:30), the latest slot of the
\* morning window (10:29) and the latest slot of a day (22:29)
ScheduleDraws ==
    {<<"morning", 8, 0, -time_variance_minutes>>,
     <<"morning", 9, 59, time_variance_minutes>>,
     <<"night", 21, 59, time_variance_minutes>>}

----------------------------------------------------------------------------
(* The process: configuration, construction, a second invocation *)

\* the environment with every credential set
CompleteEnviron == [OPENAI_API_KEY |-> TRUE, X_CREDENTIALS |-> TRUE]

\* __init__ lines 132-154: the publishing client exists when the
\* orchestrator is not in dry-run mode and all four X credentials are set
twitter_client_of(env, dry_run) == ~dry_run /\ env.X_CREDENTIALS

\* an entry point that has constructed its orchestrator
Constructed(env, dry_run) ==
    [at |-> "constructed", dry_run |-> dry_run,
     twitter_client |-> twitter_client_of(env, dry_run), exit_status |-> None]

\* the locals of an invocation that has not begun
NoInvocation ==
    [pc |-> "idle", attempt |-> 0, state |-> None, content_type |-> "none",
     content |-> None, quality_score |-> 0, tweet_id |-> None,
     preState |-> None, prePosts |-> <<>>, lastAttempt |-> "none",
     lastValid |-> None, dupVerdict |-> "unchecked", dupHits |-> 0,
     dupReport |-> NoReport, genCalls |-> 0, pubCalls |-> 0,
     bySchedule |-> FALSE, outcome |-> "none", switches |-> 0]

\* a production orchestrator built from a complete configuration, and no
\* second invocation
Deployed ==
    /\ environ = CompleteEnviron
    /\ process = Constructed(CompleteEnviron, FALSE)
    /\ other = NoInvocation

\* post_to_x line 677: the id a dry run returns
DryRunTweetId == 12345

\* the id post_to_x returns for a post: DryRunTweetId in a dry run, else
\* the id X gives it (posts are numbered as they are published)
post_id_returned ==
    IF process.dry_run THEN DryRunTweetId ELSE Len(published) + 1

\* post_to_x lines 675-711: whether the call can return an id
post_to_x_outcomes ==
    IF process.dry_run THEN {TRUE}
    ELSE IF ~process.twitter_client THEN {FALSE}
    ELSE BOOLEAN

----------------------------------------------------------------------------
(* Initial state: the stores as _init_databases creates them *)

Init ==
    /\ now = StartTime
    /\ state_file = initial_state(StartTime)
    /\ posts_db = <<>>
    /\ pc = "idle"
    /\ attempt = 0
    /\ state = None
    /\ content_type = "none"
    /\ content = None
    /\ quality_score = 0
    /\ tweet_id = None
    /\ preState = None
    /\ prePosts = <<>>
    /\ lastAttempt = "none"
    /\ lastValid = None
    /\ dupVerdict = "unchecked"
    /\ dupHits = 0
    /\ dupReport = NoReport
    /\ genCalls = 0
    /\ pubCalls = 0
    /\ bySchedule = FALSE
    /\ outcome = "none"
    /\ published = <<>>
    /\ Deployed

----------------------------------------------------------------------------
(* run_daily, one action per step *)

\* the attempt test lost: every failed attempt is followed by another
RetryAlways ==
    attempt' = attempt + 1 /\ pc' = "call_agent"

\* `continue` when attempts remain, `break` otherwise (lines 919, 928)
RetryOrBreak ==
    IF attempt < max_regeneration_attempts
    THEN attempt' = attempt + 1 /\ pc' = "call_agent"
    ELSE attempt' = attempt /\ pc' = "final_checks"

\* lines 887-890: should_post_now, whose load_state may save a weekly reset
RunDailyStart ==
    /\ process.at = "constructed"
    /\ pc = "idle"
    /\ Len(published) < MaxPosts
    /\ LET doc == load_state(state_file, now)
       IN  /\ state_file' = doc
           /\ preState' = Some(state_file)
           /\ prePosts' = posts_db
           /\ IF should_post_now(doc, now)
              THEN /\ pc' = "load_state"
                   /\ bySchedule' = ScheduleReached(doc, now)
                   /\ outcome' = outcome
              ELSE /\ pc' = "done"
                   /\ bySchedule' = FALSE
                   /\ outcome' = "not_time"
    /\ UNCHANGED <<posts_db, now, attempt, state, content_type, content,
                   quality_score, tweet_id, lastAttempt, lastValid, dupVerdict, dupHits, dupReport,
                   genCalls, pubCalls, published>>
    /\ UNCHANGED deployVars

\* lines 892-900: load the state, select the type, enter the loop
LoadAndSelect ==
    /\ pc = "load_state"
    /\ LET doc == load_state(state_file, now)
       IN  /\ state_file' = doc
           /\ state' = Some(doc)
           /\ \E ct \in select_content_type(doc) : content_type' = ct
    /\ content' = None
    /\ attempt' = 0
    /\ pc' = "call_agent"
    /\ UNCHANGED <<posts_db, now, quality_score, tweet_id, published>>
    /\ UNCHANGED histVars
    /\ UNCHANGED deployVars

\* lines 903-913: call the agent; on the last failure take the backup
CallAgent ==
    /\ pc = "call_agent"
    /\ genCalls' = genCalls + 1
    /\ dupVerdict' = "unchecked"
    /\ dupHits' = dupHits
    /\ dupReport' = NoReport
    /\ \E result \in call_agent_outcomes(content_type) :
          IF result = None
          THEN /\ lastAttempt' = "no_content"
               /\ IF attempt < max_regeneration_attempts
                  THEN /\ content' = None
                       /\ attempt' = attempt + 1
                       /\ pc' = "call_agent"
                  ELSE /\ content' = get_backup_content(content_type)
                       /\ attempt' = attempt
                       /\ pc' = "final_checks"
          ELSE /\ content' = result
               /\ lastAttempt' = lastAttempt
               /\ attempt' = attempt
               /\ pc' = "validate"
    /\ UNCHANGED <<state_file, posts_db, now, state, content_type,
                   quality_score, tweet_id, preState, prePosts, lastValid,
                   pubCalls, bySchedule, outcome, published>>
    /\ UNCHANGED deployVars

\* lines 915-922: validate the candidate
Validate ==
    /\ pc = "validate"
    /\ \E fs \in FsOutcomes(Val(content)) :
          LET v == validate_content(Val(content), fs)
          IN  /\ quality_score' = v.quality_score
              /\ lastValid' = Some([content |-> Val(content), fs |-> fs,
                                    ok |-> v.is_valid,
                                    score |-> v.quality_score])
              /\ IF ~v.is_valid
                 THEN lastAttempt' = "invalid" /\ RetryOrBreak
                 ELSE lastAttempt' = lastAttempt /\ attempt' = attempt
                      /\ pc' = "check_duplicates"
    /\ UNCHANGED <<state_file, posts_db, now, state, content_type, content,
                   tweet_id, preState, prePosts, dupVerdict, dupHits, dupReport, genCalls,
                   pubCalls, bySchedule, outcome, published>>
    /\ UNCHANGED deployVars

\* lines 924-934: check duplicates; _get_embedding is only reached when
\* the exact-match layer has not returned (line 634)
CheckDuplicates ==
    /\ pc = "check_duplicates"
    /\ LET requested == ~exact_text_match(Val(content), posts_db)
       IN  \E embedding \in (IF requested
                             THEN get_embedding_outcomes(Val(content).text)
                             ELSE {<<>>}) :
              LET d == check_duplicates(Val(content), posts_db, embedding, now)
              IN  /\ dupReport' = [reason |-> d.reason,
                                   embedding_requested |-> requested,
                                   embedding |-> embedding]
                  /\ IF d.is_duplicate
                     THEN /\ dupVerdict' = "duplicate"
                          /\ dupHits' = dupHits + 1
                          /\ lastAttempt' = "duplicate"
                          /\ RetryOrBreak
                     ELSE /\ dupVerdict' = "clean"
                          /\ dupHits' = dupHits
                          /\ lastAttempt' = "good"
                          /\ attempt' = attempt
                          /\ pc' = "final_checks"
    /\ UNCHANGED <<state_file, posts_db, now, state, content_type, content,
                   quality_score, tweet_id, preState, prePosts, lastValid,
                   genCalls, pubCalls, bySchedule, outcome, published>>
    /\ UNCHANGED deployVars

\* lines 936-945 without the final validation: whatever candidate the loop
\* left is handed to the publisher
FinalChecksWithoutValidation ==
    /\ pc = "final_checks"
    /\ IF content = None
       THEN pc' = "done" /\ outcome' = "no_content"
       ELSE pc' = "post_to_x" /\ outcome' = outcome
    /\ UNCHANGED <<state_file, posts_db, now, attempt, state, content_type,
                   content, quality_score, tweet_id, preState, prePosts,
                   lastAttempt, lastValid, dupVerdict, dupHits, dupReport, genCalls, pubCalls,
                   bySchedule, published>>
    /\ UNCHANGED deployVars

\* lines 936-945: abort without content; re-validate the final candidate
FinalChecks ==
    /\ pc = "final_checks"
    /\ IF content = None
       THEN /\ pc' = "done"
            /\ outcome' = "no_content"
            /\ UNCHANGED <<quality_score, lastValid>>
       ELSE \E fs \in FsOutcomes(Val(content)) :
               LET v == validate_content(Val(content), fs)
               IN  /\ quality_score' = v.quality_score
                   /\ lastValid' = Some([content |-> Val(content),
                                         fs |-> fs,
                                         ok |-> v.is_valid,
                                         score |-> v.quality_score])
                   /\ IF ~v.is_valid
                      THEN pc' = "done" /\ outcome' = "invalid_final"
                      ELSE pc' = "post_to_x" /\ outcome' = outcome
    /\ UNCHANGED <<state_file, posts_db, now, attempt, state, content_type,
                   content, tweet_id, preState, prePosts, lastAttempt, dupVerdict, dupHits, dupReport,
                   genCalls, pubCalls, bySchedule, published>>
    /\ UNCHANGED deployVars

\* lines 947-953 with the state saved before the result is looked at
PostToXSavesFirst ==
    /\ pc = "post_to_x"
    /\ pubCalls' = pubCalls + 1
    /\ state_file' = [Val(state) EXCEPT !.last_post_time = Some(now)]
    /\ tweet_id' = None
    /\ pc' = "done"
    /\ outcome' = "publish_failed"
    /\ UNCHANGED <<posts_db, now, attempt, state, content_type, content,
                   quality_score, preState, prePosts, lastAttempt, lastValid,
                   dupVerdict, dupHits, dupReport, genCalls, bySchedule, published>>
    /\ UNCHANGED deployVars

\* lines 947-953: publish; a post id on success, None on failure
PostToX ==
    /\ pc = "post_to_x"
    /\ pubCalls' = pubCalls + 1
    /\ \E posted \in post_to_x_outcomes :
          IF posted
          THEN /\ tweet_id' = Some(post_id_returned)
               /\ published' =
                     Append(published,
                            [time |-> now, content |-> Val(content),
                             content_type |-> content_type,
                             tweet_id |-> post_id_returned,
                             validation |-> lastValid,
                             dupVerdict |-> dupVerdict])
               /\ pc' = "update_state"
               /\ outcome' = outcome
          ELSE /\ tweet_id' = None
               /\ published' = published
               /\ pc' = "done"
               /\ outcome' = "publish_failed"
    /\ UNCHANGED <<state_file, posts_db, now, attempt, state, content_type,
                   content, quality_score, preState, prePosts, lastAttempt,
                   lastValid, dupVerdict, dupHits, dupReport, genCalls, bySchedule>>
    /\ UNCHANGED deployVars

\* line 957 with the state document read again from the store before it is
\* updated and saved
UpdateStateAfterPostReloading ==
    /\ pc = "update_state"
    /\ \E draw \in ScheduleDraws :
          /\ draw[1] \in WindowNames
          /\ draw[2] \in WindowHours(draw[1])
          /\ draw[3] \in 0..59
          /\ draw[4] \in (-time_variance_minutes)..time_variance_minutes
          /\ LET next_post_time ==
                     schedule_next_post(now, draw[2], draw[3], draw[4])
                 doc == update_state_after_post(load_state(state_file, now),
                                                content_type, Val(content),
                                                Val(tweet_id), now, next_post_time)
             IN  state' = Some(doc) /\ state_file' = doc
    /\ pc' = "update_posts_db"
    /\ UNCHANGED <<posts_db, now, attempt, content_type, content,
                   quality_score, tweet_id, published>>
    /\ UNCHANGED histVars
    /\ UNCHANGED deployVars

\* line 957: update_state_after_post, which saves the state document
UpdateStateAfterPost ==
    /\ pc = "update_state"
    /\ \E draw \in ScheduleDraws :
          /\ draw[1] \in WindowNames
          /\ draw[2] \in WindowHours(draw[1])
          /\ draw[3] \in 0..59
          /\ draw[4] \in (-time_variance_minutes)..time_variance_minutes
          /\ LET next_post_time ==
                     schedule_next_post(now, draw[2], draw[3], draw[4])
                 doc == update_state_after_post(Val(state), content_type,
                                                Val(content), Val(tweet_id),
                                                now, next_post_time)
             IN  state' = Some(doc) /\ state_file' = doc
    /\ pc' = "update_posts_db"
    /\ UNCHANGED <<posts_db, now, attempt, content_type, content,
                   quality_score, tweet_id, published>>
    /\ UNCHANGED histVars
    /\ UNCHANGED deployVars

\* line 958: update_posts_database, which saves the posts database
UpdatePostsDatabase ==
    /\ pc = "update_posts_db"
    /\ \E embedding \in get_embedding_outcomes(Val(content).text) :
          posts_db' = update_posts_database(posts_db, content_type, Val(content),
                                            Val(tweet_id), quality_score,
                                            embedding, now)
    /\ pc' = "done"
    /\ outcome' = "posted"
    /\ UNCHANGED <<state_file, now, attempt, state, content_type, content,
                   quality_score, tweet_id, preState, prePosts, lastAttempt,
                   lastValid, dupVerdict, dupHits, dupReport, genCalls, pubCalls, bySchedule,
                   published>>
    /\ UNCHANGED deployVars

\* run_daily returns: its locals go out of scope
Return ==
    /\ pc = "done"
    /\ pc' = "idle"
    /\ attempt' = 0
    /\ state' = None
    /\ content_type' = "none"
    /\ content' = None
    /\ quality_score' = 0
    /\ tweet_id' = None
    /\ preState' = None
    /\ prePosts' = <<>>
    /\ lastAttempt' = "none"
    /\ lastValid' = None
    /\ dupVerdict' = "unchecked"
    /\ dupHits' = 0
    /\ dupReport' = NoReport
    /\ genCalls' = 0
    /\ pubCalls' = 0
    /\ bySchedule' = FALSE
    /\ outcome' = "none"
    /\ UNCHANGED <<state_file, posts_db, now, published>>
    /\ UNCHANGED deployVars

\* time passes
Tick ==
    /\ pc = "idle"
    /\ \E t \in ClockInstants :
          /\ t > now
          /\ now' = t
    /\ UNCHANGED <<state_file, posts_db, published>>
    /\ UNCHANGED progVars
    /\ UNCHANGED histVars
    /\ UNCHANGED deployVars

Next ==
    \/ RunDailyStart
    \/ LoadAndSelect
    \/ CallAgent
    \/ Validate
    \/ CheckDuplicates
    \/ FinalChecks
    \/ PostToX
    \/ UpdateStateAfterPost
    \/ UpdatePostsDatabase
    \/ Return
    \/ Tick

Spec == Init /\ [][Next]_vars

----------------------------------------------------------------------------
(* Specifications of single operations, started from drawn inputs *)

\* no invocation is running: the stores hold doc and posts, the clock reads t
Quiescent(doc, posts, t) ==
    /\ now = t
    /\ state_file = doc
    /\ posts_db = posts
    /\ pc = "idle"
    /\ attempt = 0
    /\ state = None
    /\ content_type = "none"
    /\ content = None
    /\ quality_score = 0
    /\ tweet_id = None
    /\ preState = None
    /\ prePosts = <<>>
    /\ lastAttempt = "none"
    /\ lastValid = None
    /\ dupVerdict = "unchecked"
    /\ dupHits = 0
    /\ dupReport = NoReport
    /\ genCalls = 0
    /\ pubCalls = 0
    /\ bySchedule = FALSE
    /\ outcome = "none"

\* no invocation is running: the stores hold doc and posts, the clock reads
\* t, and the orchestrator is deployed
AtRest(doc, posts, t) ==
    /\ Quiescent(doc, posts, t)
    /\ Deployed

\* should_post_now without a slot: times of a last post (00:00, 03:59, 04:00,
\* 14:00 and 23:59 of day 0) and the minutes elapsed since
LastPostTimes ==
    {0, 3 * MinutesPerHour + 59, 4 * MinutesPerHour, 14 * MinutesPerHour,
     23 * MinutesPerHour + 59}
ElapsedMinutes ==
    {0, 1, MinutesPerHour, 19 * MinutesPerHour, 19 * MinutesPerHour + 59,
     20 * MinutesPerHour, 20 * MinutesPerHour + 1, MinutesPerDay,
     2 * MinutesPerDay, 8 * MinutesPerDay}

\* a state document without next_post_scheduled, with or without a last
\* post, read at some later time
InitShould ==
    /\ \E base \in LastPostTimes, gap \in ElapsedMinutes, posted \in BOOLEAN :
          AtRest([initial_state(base) EXCEPT
                     !.last_post_time = IF posted THEN Some(base) ELSE None],
                 <<>>, base + gap)
    /\ published = <<>>

NextShould ==
    \/ RunDailyStart
    \/ Return

SpecShould == InitShould /\ [][NextShould]_vars

\* schedule_next_post: the times of day at which a post is recorded
\* (00:00, 07:29, 07:30, 14:00, 22:29, 22:30, 23:59), on days 0 and 6
ScheduleTimes ==
    {d * MinutesPerDay + m :
        d \in {0, 6},
        m \in {0, 7 * MinutesPerHour + 29, 7 * MinutesPerHour + 30,
               14 * MinutesPerHour, 22 * MinutesPerHour + 29,
               22 * MinutesPerHour + 30, 23 * MinutesPerHour + 59}}

\* a generated news candidate
NewsCandidate ==
    Candidate(ShortPost, None, Metadata("news_hunter", "serper_search", None))

\* run_daily has just published its first post, at a drawn time
InitSchedule ==
    \E t \in ScheduleTimes :
       /\ now = t
       /\ state_file = initial_state(t)
       /\ posts_db = <<>>
       /\ pc = "update_state"
       /\ attempt = 0
       /\ state = Some(initial_state(t))
       /\ content_type = "news"
       /\ content = Some(NewsCandidate)
       /\ quality_score = 10
       /\ tweet_id = Some(1)
       /\ preState = Some(initial_state(t))
       /\ prePosts = <<>>
       /\ lastAttempt = "good"
       /\ lastValid = Some([content |-> NewsCandidate, fs |-> NoMediaFs,
                            ok |-> TRUE, score |-> 10])
       /\ dupVerdict = "clean"
       /\ dupHits = 0
       /\ dupReport = [reason |-> "No duplicates", embedding_requested |-> TRUE,
                       embedding |-> EmbeddingOf(ShortPost)]
       /\ genCalls = 1
       /\ pubCalls = 1
       /\ bySchedule = FALSE
       /\ outcome = "none"
       /\ published = <<[time |-> t, content |-> NewsCandidate,
                         content_type |-> "news", tweet_id |-> 1,
                         validation |-> lastValid, dupVerdict |-> "clean"]>>
       /\ Deployed

\* line 957 with every draw schedule_next_post can make: any window, any
\* hour of it, any minute, any jitter
UpdateStateAnyDraw ==
    /\ pc = "update_state"
    /\ \E w \in WindowNames :
       \E base_hour \in WindowHours(w) :
       \E base_minute \in 0..59 :
       \E variance_minutes \in (-time_variance_minutes)..time_variance_minutes :
          LET next_post_time ==
                  schedule_next_post(now, base_hour, base_minute, variance_minutes)
              doc == update_state_after_post(Val(state), content_type,
                                             Val(content), Val(tweet_id),
                                             now, next_post_time)
          IN  state' = Some(doc) /\ state_file' = doc
    /\ pc' = "update_posts_db"
    /\ UNCHANGED <<posts_db, now, attempt, content_type, content,
                   quality_score, tweet_id, published>>
    /\ UNCHANGED histVars
    /\ UNCHANGED deployVars

NextSchedule ==
    \/ UpdateStateAnyDraw
    \/ UpdatePostsDatabase

SpecSchedule == InitSchedule /\ [][NextSchedule]_vars

\* update_state_after_post called over and over: the types recorded and a
\* candidate for each
UpdateTypes == {"news", "curator"}
CuratorCandidate ==
    Candidate(CommentaryA, None,
              Metadata("content_curator", "x_viral", Some("tw1")))
PostedCandidate(ct) == IF ct = "curator" THEN CuratorCandidate ELSE NewsCandidate

\* one more update_state_after_post call on the stored document, for a post
\* of a drawn type; the slot drawn is 08:00 of the next day
UpdateStateCall ==
    /\ pc = "idle"
    /\ Len(published) < MaxUpdates
    /\ \E ct \in UpdateTypes :
          LET tid == Len(published) + 1
              next_post_time == schedule_next_post(now, 8, 0, 0)
          IN  /\ state_file' =
                     update_state_after_post(state_file, ct, PostedCandidate(ct),
                                             tid, now, next_post_time)
              /\ published' =
                     Append(published,
                            [time |-> now, content |-> PostedCandidate(ct),
                             content_type |-> ct, tweet_id |-> tid,
                             validation |-> None, dupVerdict |-> "unchecked"])
    /\ UNCHANGED <<posts_db, now>>
    /\ UNCHANGED progVars
    /\ UNCHANGED histVars
    /\ UNCHANGED deployVars

NextUpdates == UpdateStateCall

SpecUpdates == Init /\ [][NextUpdates]_vars

\* select_content_type: every history the window can hold (0 to 7 entries
\* of any types) and week_counts below, at and above the weekly quotas
Histories ==
    UNION {[1..n -> ContentTypes] : n \in 0..Last7Cap}
WeekCountDraws ==
    {ZeroCounts,
     [ct \in ContentTypes |-> 2],
     [ct \in ContentTypes |-> 3],
     [ct \in ContentTypes |-> IF ct = "news" THEN 3 ELSE 0]}

\* the state document after the posts of a history, the last of them made
\* two days before
HistoryDocument(types, counts) ==
    [initial_state(0) EXCEPT
        !.last_post_time = IF types = <<>> THEN None ELSE Some(StartTime),
        !.last_7_days_posts =
            [i \in 1..Len(types) |-> [type |-> types[i], date |-> 0, tweet_id |-> i]],
        !.week_counts = counts,
        !.next_post_scheduled =
            IF types = <<>> THEN None ELSE Some(StartTime + MinutesPerDay)]

\* run_daily has been let through by should_post_now, on a drawn document
InitSelect ==
    \E types \in Histories, counts \in WeekCountDraws :
       /\ now = StartTime + 2 * MinutesPerDay
       /\ state_file = HistoryDocument(types, counts)
       /\ posts_db = <<>>
       /\ pc = "load_state"
       /\ attempt = 0
       /\ state = None
       /\ content_type = "none"
       /\ content = None
       /\ quality_score = 0
       /\ tweet_id = None
       /\ preState = Some(HistoryDocument(types, counts))
       /\ prePosts = <<>>
       /\ lastAttempt = "none"
       /\ lastValid = None
       /\ dupVerdict = "unchecked"
       /\ dupHits = 0
       /\ dupReport = NoReport
       /\ genCalls = 0
       /\ pubCalls = 0
       /\ bySchedule = (types # <<>>)
       /\ outcome = "none"
       /\ published = <<>>
       /\ Deployed

NextSelect == LoadAndSelect

SpecSelect == InitSelect /\ [][NextSelect]_vars

\* validate_content: texts of 1, 279, 280 and 281 characters with 0, 1 or 2
\* double quotes and 0 or 1 apostrophe, a text of blanks only, and
\* candidates carrying them with no media, a .png or a .webp
ValidatedTexts ==
    {Txt(<<"text", chars, dq, sq>>, chars, FALSE, dq, sq, <<>>) :
        chars \in {1, TweetLimit - 1, TweetLimit, TweetLimit + 1},
        dq \in {0, 1, 2}, sq \in {0, 1}}
    \cup {Txt(<<"text", 3, 0, 0>>, 3, TRUE, 0, 0, <<>>)}
ValidatedCandidates ==
    {Candidate(text, media, Metadata("content_curator", "x_viral", Some("tw1"))) :
        text \in ValidatedTexts, media \in {None, Some(MediaPng), Some(MediaWebp)}}

\* the curator agent has just returned a drawn candidate on the first
\* attempt of the first run
InitValidate ==
    \E cand \in ValidatedCandidates :
       /\ now = StartTime
       /\ state_file = initial_state(StartTime)
       /\ posts_db = <<>>
       /\ pc = "validate"
       /\ attempt = 0
       /\ state = Some(initial_state(StartTime))
       /\ content_type = "curator"
       /\ content = Some(cand)
       /\ quality_score = 0
       /\ tweet_id = None
       /\ preState = Some(initial_state(StartTime))
       /\ prePosts = <<>>
       /\ lastAttempt = "none"
       /\ lastValid = None
       /\ dupVerdict = "unchecked"
       /\ dupHits = 0
       /\ dupReport = NoReport
       /\ genCalls = 1
       /\ pubCalls = 0
       /\ bySchedule = FALSE
       /\ outcome = "none"
       /\ published = <<>>
       /\ Deployed

NextValidate == Validate

SpecValidate == InitValidate /\ [][NextValidate]_vars

\* the posts database over a long time: instants a minute apart at the
\* start, and 30 days (track_days) later
HistoryInstants ==
    {StartTime, StartTime + 1,
     StartTime + track_days * MinutesPerDay,
     StartTime + track_days * MinutesPerDay + 1}

\* texts of the posts that get recorded, and of the candidates checked
RecordedTexts == {ShortPost, LongPost, FlatPost}
CheckedTexts == {ShortPost, NearPost, EdgePost, LongPost, FlatPost}
NewsCandidateOf(text) ==
    Candidate(text, None, Metadata("news_hunter", "serper_search", None))

\* lines 957-958 of a cycle that has published a post of a drawn text
\* (run_daily can publish any text, a duplicate included); the slot drawn is
\* 08:00 of the next day
RecordPostCall ==
    /\ pc = "idle"
    /\ Len(published) < MaxRecords
    /\ \E text \in RecordedTexts :
       \E embedding \in get_embedding_outcomes(text) :
          LET tid == Len(published) + 1
              cand == NewsCandidateOf(text)
              next_post_time == schedule_next_post(now, 8, 0, 0)
          IN  /\ state_file' =
                     update_state_after_post(load_state(state_file, now), "news",
                                             cand, tid, now, next_post_time)
              /\ posts_db' = update_posts_database(posts_db, "news", cand, tid,
                                                   10, embedding, now)
              /\ published' =
                     Append(published,
                            [time |-> now, content |-> cand,
                             content_type |-> "news", tweet_id |-> tid,
                             validation |-> None, dupVerdict |-> "unchecked"])
    /\ content' = None
    /\ dupVerdict' = "unchecked"
    /\ dupReport' = NoReport
    /\ UNCHANGED <<now, pc, attempt, state, content_type, quality_score,
                   tweet_id, preState, prePosts, lastAttempt, lastValid,
                   dupHits, genCalls, pubCalls, bySchedule, outcome>>
    /\ UNCHANGED deployVars

\* check_duplicates called on a drawn candidate against the stored history
CheckDuplicatesCall ==
    /\ pc = "idle"
    /\ \E text \in CheckedTexts :
          LET cand == NewsCandidateOf(text)
              requested == ~exact_text_match(cand, posts_db)
          IN  \E embedding \in (IF requested THEN get_embedding_outcomes(text)
                                ELSE {<<>>}) :
                 LET d == check_duplicates(cand, posts_db, embedding, now)
                 IN  /\ content' = Some(cand)
                     /\ dupVerdict' = IF d.is_duplicate THEN "duplicate" ELSE "clean"
                     /\ dupReport' = [reason |-> d.reason,
                                      embedding_requested |-> requested,
                                      embedding |-> embedding]
    /\ UNCHANGED <<state_file, posts_db, now, pc, attempt, state, content_type,
                   quality_score, tweet_id, preState, prePosts, lastAttempt,
                   lastValid, dupHits, genCalls, pubCalls, bySchedule, outcome,
                   published>>
    /\ UNCHANGED deployVars

\* time passes between two calls
HistoryTick ==
    /\ pc = "idle"
    /\ \E t \in HistoryInstants :
          /\ t > now
          /\ now' = t
    /\ content' = None
    /\ dupVerdict' = "unchecked"
    /\ dupReport' = NoReport
    /\ UNCHANGED <<state_file, posts_db, pc, attempt, state, content_type,
                   quality_score, tweet_id, preState, prePosts, lastAttempt,
                   lastValid, dupHits, genCalls, pubCalls, bySchedule, outcome,
                   published>>
    /\ UNCHANGED deployVars

NextHistory ==
    \/ RecordPostCall
    \/ CheckDuplicatesCall
    \/ HistoryTick

SpecHistory == Init /\ [][NextHistory]_vars

----------------------------------------------------------------------------

\* run_weekly_analysis: the instants of the pass, for a week begun on day 10
\* (3 days 14 hours, 6 days 23:47, 6 days 23:48, 7 days and 7 days 14 hours
\* after the midnight that began it)
AnalysisTimes ==
    {13 * MinutesPerDay + 14 * MinutesPerHour,
     16 * MinutesPerDay + 23 * MinutesPerHour + 47,
     16 * MinutesPerDay + 23 * MinutesPerHour + 48,
     17 * MinutesPerDay,
     17 * MinutesPerDay + 14 * MinutesPerHour}

\* how long before the pass a post was made: just now, a day, exactly 7
\* days, 7 days and a minute
PostAges == {0, MinutesPerDay, AnalysisDays * MinutesPerDay,
             AnalysisDays * MinutesPerDay + 1}
AnalysedTypes == {"news", "meme"}
\* the engagement counters of a record as they stand at the pass
Engagements ==
    {[likes |-> 10, retweets |-> 1, views |-> 100],
     [likes |-> 20, retweets |-> 2, views |-> 100],
     [likes |-> 30, retweets |-> 0, views |-> 100],
     [likes |-> 25, retweets |-> 4, views |-> 100]}

\* a record as update_posts_database wrote it at time t, with its
\* engagement counters as they stand now
AnalysedPost(tid, ct, t, engagement) ==
    [update_posts_database(<<>>, ct, NewsCandidateOf(ShortPost), tid, 10,
                           <<>>, t)[1]
        EXCEPT !.engagement = engagement]

\* the state document of a week begun on day 10 in which posts were made
StoredWeek ==
    [initial_state(10 * MinutesPerDay + 9 * MinutesPerHour) EXCEPT
        !.last_post_time = Some(12 * MinutesPerDay + 9 * MinutesPerHour),
        !.last_7_days_posts =
            <<[type |-> "news", date |-> 10, tweet_id |-> 1],
              [type |-> "meme", date |-> 11, tweet_id |-> 2],
              [type |-> "news", date |-> 12, tweet_id |-> 3]>>,
        !.week_counts = [ct \in ContentTypes |->
                            IF ct = "news" THEN 2 ELSE IF ct = "meme" THEN 1 ELSE 0],
        !.next_post_scheduled = Some(13 * MinutesPerDay + 8 * MinutesPerHour)]

\* a history of up to MaxAnalysed records, oldest first, read at a drawn time
InitAnalysis ==
    /\ \E t \in AnalysisTimes, n \in 0..MaxAnalysed :
       \E ages \in [1..n -> PostAges], types \in [1..n -> AnalysedTypes],
          engagements \in [1..n -> Engagements] :
          /\ \A i \in 1..n : \A j \in 1..n : i < j => ages[i] >= ages[j]
          /\ AtRest(StoredWeek,
                    [i \in 1..n |->
                        AnalysedPost(i, types[i], t - ages[i], engagements[i])],
                    t)
    /\ published = <<>>

\* one pass of run_weekly_analysis
RunWeeklyAnalysis ==
    /\ pc = "idle"
    /\ state_file' = run_weekly_analysis(state_file, posts_db, now)
    /\ preState' = Some(state_file)
    /\ prePosts' = posts_db
    /\ outcome' = "analysed"
    /\ UNCHANGED <<posts_db, now, pc, attempt, state, content_type, content,
                   quality_score, tweet_id, lastAttempt, lastValid, dupVerdict,
                   dupHits, dupReport, genCalls, pubCalls, bySchedule, published>>
    /\ UNCHANGED deployVars

NextAnalysis == RunWeeklyAnalysis

SpecAnalysis == InitAnalysis /\ [][NextAnalysis]_vars

----------------------------------------------------------------------------

\* load_state: the instants of the call, for a week begun on day 10 (the
\* same midnight, 3 days 14 hours, 6 days 23:47, 6 days 23:48, 6 days 23:59,
\* 7 days, 7 days and a minute, 7 days 14 hours, 8 days and 14 days later)
LoadTimes ==
    AnalysisTimes \cup
    {10 * MinutesPerDay,
     16 * MinutesPerDay + 23 * MinutesPerHour + 59,
     17 * MinutesPerDay + 1,
     18 * MinutesPerDay,
     24 * MinutesPerDay}

\* the stored document of a week begun on day 10, with drawn week_counts,
\* with or without a slot, read at a drawn time
InitLoad ==
    /\ \E t \in LoadTimes, counts \in WeekCountDraws, slot \in BOOLEAN,
          posted \in BOOLEAN :
          AtRest([StoredWeek EXCEPT
                     !.week_counts = counts,
                     !.last_post_time = IF posted THEN @ ELSE None,
                     !.next_post_scheduled = IF slot THEN @ ELSE None],
                 <<>>, t)
    /\ published = <<>>

\* state = orchestrator.load_state()
LoadStateCall ==
    /\ pc = "idle"
    /\ preState' = Some(state_file)
    /\ state_file' = load_state(state_file, now)
    /\ state' = Some(load_state(state_file, now))
    /\ outcome' = "loaded"
    /\ UNCHANGED <<posts_db, now, pc, attempt, content_type, content,
                   quality_score, tweet_id, prePosts, lastAttempt, lastValid,
                   dupVerdict, dupHits, dupReport, genCalls, pubCalls,
                   bySchedule, published>>
    /\ UNCHANGED deployVars

NextLoad == LoadStateCall

SpecLoad == InitLoad /\ [][NextLoad]_vars

----------------------------------------------------------------------------

\* the entry points (render_job.py main in production mode, orchestrator.py
\* main in dry-run mode), started in an environment with or without the
\* OpenAI key and the X credentials, an hour after a post or with none made
InitStartup ==
    /\ \E env \in [OPENAI_API_KEY : BOOLEAN, X_CREDENTIALS : BOOLEAN],
          dry_run \in BOOLEAN, posted \in BOOLEAN :
          /\ Quiescent([initial_state(StartTime) EXCEPT
                           !.last_post_time =
                               IF posted THEN Some(StartTime - MinutesPerHour)
                               ELSE None],
                       <<>>, StartTime)
          /\ environ = env
          /\ process = [at |-> "start", dry_run |-> dry_run,
                        twitter_client |-> FALSE, exit_status |-> None]
    /\ other = NoInvocation
    /\ published = <<>>

\* OrchestratorAgent(dry_run=...): __init__ raises ValueError without the
\* OpenAI key, which ends the process with status 1; otherwise the object
\* is built, with or without a publishing client
Construct ==
    /\ process.at = "start"
    /\ process' =
          IF ~environ.OPENAI_API_KEY
          THEN [process EXCEPT !.at = "exited", !.exit_status = Some(1)]
          ELSE Constructed(environ, process.dry_run)
    /\ UNCHANGED <<state_file, posts_db, now, published, environ, other>>
    /\ UNCHANGED progVars
    /\ UNCHANGED histVars

\* run_daily returns (None on every path) and main runs to its end: the
\* process ends with status 0
ExitMain ==
    /\ process.at = "constructed"
    /\ pc = "done"
    /\ process' = [process EXCEPT !.at = "exited", !.exit_status = Some(0)]
    /\ UNCHANGED <<state_file, posts_db, now, published, environ, other>>
    /\ UNCHANGED progVars
    /\ UNCHANGED histVars

NextStartup ==
    \/ Construct
    \/ RunDailyStart
    \/ LoadAndSelect
    \/ CallAgent
    \/ Validate
    \/ CheckDuplicates
    \/ FinalChecks
    \/ PostToX
    \/ UpdateStateAfterPost
    \/ UpdatePostsDatabase
    \/ ExitMain

SpecStartup == InitStartup /\ [][NextStartup]_vars

----------------------------------------------------------------------------

\* two run_daily invocations on the same stores.  The variables pc ... outcome
\* hold the locals of the invocation that is running, `other` those of the
\* one that is suspended; a switch exchanges them.  An invocation can be
\* suspended between two accesses to the stores: after the scheduler check,
\* before the publish, before each of the two saves, and at its end
SwitchPoints == {"load_state", "post_to_x", "update_state", "update_posts_db",
                 "done"}

Switch ==
    /\ pc \in SwitchPoints
    /\ other.switches < MaxSwitches
    /\ other' = [pc |-> pc, attempt |-> attempt, state |-> state,
                 content_type |-> content_type, content |-> content,
                 quality_score |-> quality_score, tweet_id |-> tweet_id,
                 preState |-> preState, prePosts |-> prePosts,
                 lastAttempt |-> lastAttempt, lastValid |-> lastValid,
                 dupVerdict |-> dupVerdict, dupHits |-> dupHits,
                 dupReport |-> dupReport, genCalls |-> genCalls,
                 pubCalls |-> pubCalls, bySchedule |-> bySchedule,
                 outcome |-> outcome, switches |-> other.switches + 1]
    /\ pc' = other.pc
    /\ attempt' = other.attempt
    /\ state' = other.state
    /\ content_type' = other.content_type
    /\ content' = other.content
    /\ quality_score' = other.quality_score
    /\ tweet_id' = other.tweet_id
    /\ preState' = other.preState
    /\ prePosts' = other.prePosts
    /\ lastAttempt' = other.lastAttempt
    /\ lastValid' = other.lastValid
    /\ dupVerdict' = other.dupVerdict
    /\ dupHits' = other.dupHits
    /\ dupReport' = other.dupReport
    /\ genCalls' = other.genCalls
    /\ pubCalls' = other.pubCalls
    /\ bySchedule' = other.bySchedule
    /\ outcome' = other.outcome
    /\ UNCHANGED <<state_file, posts_db, now, published, environ, process>>

NextOverlap ==
    \/ RunDailyStart
    \/ LoadAndSelect
    \/ CallAgent
    \/ Validate
    \/ CheckDuplicates
    \/ FinalChecks
    \/ PostToX
    \/ UpdateStateAfterPost
    \/ UpdatePostsDatabase
    \/ Switch

SpecOverlap == Init /\ [][NextOverlap]_vars

----------------------------------------------------------------------------

\* the quota rule: histories of up to two posts and every week_counts with
\* entries from 0 to MaxWeekCount
ShortHistories == UNION {[1..n -> ContentTypes] : n \in 0..2}

\* run_daily has been let through by should_post_now, on a drawn document
InitQuota ==
    \E types \in ShortHistories, counts \in [ContentTypes -> 0..MaxWeekCount] :
       /\ now = StartTime + 2 * MinutesPerDay
       /\ state_file = HistoryDocument(types, counts)
       /\ posts_db = <<>>
       /\ pc = "load_state"
       /\ attempt = 0
       /\ state = None
       /\ content_type = "none"
       /\ content = None
       /\ quality_score = 0
       /\ tweet_id = None
       /\ preState = Some(HistoryDocument(types, counts))
       /\ prePosts = <<>>
       /\ lastAttempt = "none"
       /\ lastValid = None
       /\ dupVerdict = "unchecked"
       /\ dupHits = 0
       /\ dupReport = NoReport
       /\ genCalls = 0
       /\ pubCalls = 0
       /\ bySchedule = (types # <<>>)
       /\ outcome = "none"
       /\ published = <<>>
       /\ Deployed

NextQuota == LoadAndSelect

SpecQuota == InitQuota /\ [][NextQuota]_vars

----------------------------------------------------------------------------

\* the topic list and the curated ids: update_state_after_post calls on a
\* document that earlier curator posts have filled
RECURSIVE StoredAfterCuratorPosts(_)
\* the state document after k curator posts, the i-th of source post i
StoredAfterCuratorPosts(k) ==
    IF k = 0 THEN initial_state(StartTime)
    ELSE update_state_after_post(
             StoredAfterCuratorPosts(k - 1), "curator",
             Candidate(CommentaryA, None,
                       Metadata("content_curator", "x_viral", Some(<<"tw", k>>))),
             k, StartTime, schedule_next_post(StartTime, 8, 0, 0))

\* earlier curator posts: none, or one less than the list of ids holds
EarlierCuratorPosts == {0, CuratedCap - 1}

InitTopics ==
    \E k \in EarlierCuratorPosts :
       /\ now = StartTime
       /\ state_file = StoredAfterCuratorPosts(k)
       /\ posts_db = <<>>
       /\ pc = "idle"
       /\ attempt = 0
       /\ state = None
       /\ content_type = "none"
       /\ content = None
       /\ quality_score = 0
       /\ tweet_id = None
       /\ preState = Some(StoredAfterCuratorPosts(k))
       /\ prePosts = <<>>
       /\ lastAttempt = "none"
       /\ lastValid = None
       /\ dupVerdict = "unchecked"
       /\ dupHits = 0
       /\ dupReport = NoReport
       /\ genCalls = 0
       /\ pubCalls = 0
       /\ bySchedule = FALSE
       /\ outcome = "none"
       /\ published = <<>>
       /\ Deployed

\* texts of one topic and of four, of which three are taken
TopicTexts == {ShortPost, OtherPost}

\* one more update_state_after_post call: the post is of a drawn type, has a
\* drawn text and carries the id of a source post or none
UpdateTopicsCall ==
    /\ pc = "idle"
    /\ Len(published) < MaxTopicUpdates
    /\ \E ct \in UpdateTypes, text \in TopicTexts,
          otid \in {None, Some(<<"tw", CuratedCap + Len(published)>>)} :
          LET tid == CuratedCap + Len(published)
              cand == Candidate(text, None,
                                Metadata("content_curator", "x_viral", otid))
              next_post_time == schedule_next_post(now, 8, 0, 0)
          IN  /\ state_file' =
                     update_state_after_post(state_file, ct, cand, tid, now,
                                             next_post_time)
              /\ published' =
                     Append(published,
                            [time |-> now, content |-> cand,
                             content_type |-> ct, tweet_id |-> tid,
                             validation |-> None, dupVerdict |-> "unchecked"])
    /\ UNCHANGED <<posts_db, now>>
    /\ UNCHANGED progVars
    /\ UNCHANGED histVars
    /\ UNCHANGED deployVars

NextTopics == UpdateTopicsCall

SpecTopics == InitTopics /\ [][NextTopics]_vars

----------------------------------------------------------------------------

\* a run_weekly_analysis pass made by a second process while run_daily runs

\* lines 978-1012: the engagement_by_type the pass computes from the records
\* it loaded
weekly_engagement(posts, t) ==
    run_weekly_analysis(initial_state(t), posts, t).engagement_by_type

\* day 13, 14:00: the slot of StoredWeek is reached and the history holds a
\* news record of the day before with 10 likes
PassTime == 13 * MinutesPerDay + 14 * MinutesPerHour
InitPasses ==
    /\ AtRest(StoredWeek,
              <<AnalysedPost(3, "news", PassTime - MinutesPerDay,
                             [likes |-> 10, retweets |-> 1, views |-> 100])>>,
              PassTime)
    /\ published = <<>>

\* lines 975-976: the pass loads the state document and the history
AnalysisLoad ==
    /\ other.pc = "idle"
    /\ state_file' = load_state(state_file, now)
    /\ other' = [other EXCEPT !.pc = "analysis_loaded",
                              !.state = Some(load_state(state_file, now)),
                              !.prePosts = posts_db]
    /\ UNCHANGED <<posts_db, now, published, environ, process>>
    /\ UNCHANGED progVars
    /\ UNCHANGED histVars

\* the pass merging its result into the document stored at the time it saves
AnalysisSaveMerging ==
    /\ other.pc = "analysis_loaded"
    /\ state_file' =
          [state_file EXCEPT
              !.engagement_by_type = weekly_engagement(other.prePosts, now)]
    /\ other' = [other EXCEPT !.pc = "done", !.outcome = "analysed"]
    /\ UNCHANGED <<posts_db, now, published, environ, process>>
    /\ UNCHANGED progVars
    /\ UNCHANGED histVars

\* lines 978-1016: the pass computes the averages, sets them in the document
\* it loaded and saves that document
AnalysisSave ==
    /\ other.pc = "analysis_loaded"
    /\ state_file' =
          [Val(other.state) EXCEPT
              !.engagement_by_type = weekly_engagement(other.prePosts, now)]
    /\ other' = [other EXCEPT !.pc = "done", !.outcome = "analysed"]
    /\ UNCHANGED <<posts_db, now, published, environ, process>>
    /\ UNCHANGED progVars
    /\ UNCHANGED histVars

NextPasses ==
    \/ RunDailyStart
    \/ LoadAndSelect
    \/ CallAgent
    \/ Validate
    \/ CheckDuplicates
    \/ FinalChecks
    \/ PostToX
    \/ UpdateStateAfterPost
    \/ UpdatePostsDatabase
    \/ AnalysisLoad
    \/ AnalysisSave

SpecPasses == InitPasses /\ [][NextPasses]_vars

----------------------------------------------------------------------------

\* the worker loop of render_worker.py: run_orchestrator, an hour of sleep,
\* and again, for ever.  The generator and the publisher may fail until
\* RecoveryTime and give a valid candidate that is no duplicate, and a post
\* id, from then on.

\* the first wake-up of the worker: day 13, 14:00
FirstWakeUp == 13 * MinutesPerDay + 14 * MinutesPerHour
\* asyncio.sleep(3600), render_worker.py line 78
SleepMinutes == 60
RecoveryTime == FirstWakeUp + 2 * SleepMinutes
Healthy == now >= RecoveryTime

\* the stores after one backup news post made the day before at 14:00, the
\* next slot drawn at 15:00
PostedYesterday ==
    [doc |->
        update_state_after_post(
            initial_state(10 * MinutesPerDay + 9 * MinutesPerHour), "news",
            NewsCandidateOf(BackupNewsText), 1, FirstWakeUp - MinutesPerDay,
            schedule_next_post(FirstWakeUp - MinutesPerDay, 15, 0, 0)),
     posts |->
        update_posts_database(<<>>, "news", NewsCandidateOf(BackupNewsText),
                              1, 10, EmbeddingOf(BackupNewsText),
                              FirstWakeUp - MinutesPerDay)]

\* the worker starts on fresh stores, or on stores that hold a post and a
\* slot an hour ahead
InitWorker ==
    /\ \/ AtRest(initial_state(FirstWakeUp), <<>>, FirstWakeUp)
       \/ AtRest(PostedYesterday.doc, PostedYesterday.posts, FirstWakeUp)
    /\ published = <<>>

\* a candidate that passes validate_content and that check_duplicates lets
\* through against the present history
GoodCandidate(cand) ==
    /\ \E fs \in FsOutcomes(cand) : validate_content(cand, fs).is_valid
    /\ \A embedding \in get_embedding_outcomes(cand.text) :
          ~check_duplicates(cand, posts_db, embedding, now).is_duplicate

WorkerCallAgent ==
    /\ CallAgent
    /\ Healthy => (content' # None /\ pc' = "validate" /\ GoodCandidate(content'[1]))
WorkerValidate == Validate /\ (Healthy => pc' = "check_duplicates")
WorkerCheckDuplicates == CheckDuplicates /\ (Healthy => dupVerdict' = "clean")
WorkerFinalChecks == FinalChecks /\ (Healthy => pc' = "post_to_x")
WorkerPostToX == PostToX /\ (Healthy => pc' = "update_state")

\* the worker that stops after a cycle instead of sleeping and looping
SleepAndStop ==
    /\ pc = "done"
    /\ pc' = "stopped"
    /\ UNCHANGED <<state_file, posts_db, now, attempt, state, content_type,
                   content, quality_score, tweet_id, published>>
    /\ UNCHANGED histVars
    /\ UNCHANGED deployVars

\* (run_orchestrator calls load_state once more before run_daily, line 34;
\* a second load_state at the same time returns and saves the same document)
\* render_worker.py lines 72-78: run_orchestrator has returned (run_daily's
\* locals are gone), the worker sleeps an hour and loops; the clock is
\* followed for MaxWakeUps hours
SleepAnHour ==
    /\ pc = "done"
    /\ pc' = "idle"
    /\ now' = IF now + SleepMinutes <= FirstWakeUp + MaxWakeUps * SleepMinutes
              THEN now + SleepMinutes ELSE now
    /\ attempt' = 0
    /\ state' = None
    /\ content_type' = "none"
    /\ content' = None
    /\ quality_score' = 0
    /\ tweet_id' = None
    /\ preState' = None
    /\ prePosts' = <<>>
    /\ lastAttempt' = "none"
    /\ lastValid' = None
    /\ dupVerdict' = "unchecked"
    /\ dupHits' = 0
    /\ dupReport' = NoReport
    /\ genCalls' = 0
    /\ pubCalls' = 0
    /\ bySchedule' = FALSE
    /\ outcome' = "none"
    /\ UNCHANGED <<state_file, posts_db, published>>
    /\ UNCHANGED deployVars

NextWorker ==
    \/ RunDailyStart
    \/ LoadAndSelect
    \/ WorkerCallAgent
    \/ WorkerValidate
    \/ WorkerCheckDuplicates
    \/ WorkerFinalChecks
    \/ WorkerPostToX
    \/ UpdateStateAfterPost
    \/ UpdatePostsDatabase
    \/ SleepAnHour

\* the loop of main never ends and every step of a cycle is awaited in turn:
\* a step that can be taken is taken
SpecWorker == InitWorker /\ [][NextWorker]_vars /\ WF_vars(NextWorker)

----------------------------------------------------------------------------

\* run_daily called day after day: the weekly counters over more than a week

\* the instants at which run_daily is called: noon of every day, and ten
\* minutes before the midnight that ends the seventh day
WeekClock ==
    {d * MinutesPerDay + 12 * MinutesPerHour : d \in 0..MaxWeekDays}
       \cup {6 * MinutesPerDay + 23 * MinutesPerHour + 50}

\* the orchestrator is first constructed at noon of day 0
InitWeek ==
    /\ AtRest(initial_state(12 * MinutesPerHour), <<>>, 12 * MinutesPerHour)
    /\ published = <<>>

\* time passes until the next call
WeekTick ==
    /\ pc = "idle"
    /\ \E t \in WeekClock :
          /\ t > now
          /\ \A u \in WeekClock : u > now => t <= u
          /\ now' = t
    /\ UNCHANGED <<state_file, posts_db, published>>
    /\ UNCHANGED progVars
    /\ UNCHANGED histVars
    /\ UNCHANGED deployVars

\* a run_daily cycle that does not publish (not yet time, or an abort): the
\* only write is the weekly reset load_state saves when it is due
CycleWithoutPublish ==
    /\ pc = "idle"
    /\ state_file' = load_state(state_file, now)
    /\ preState' = Some(state_file)
    /\ outcome' = "not_posted"
    /\ UNCHANGED <<posts_db, now, published, prePosts, lastAttempt, lastValid,
                   dupVerdict, dupHits, dupReport, genCalls, pubCalls,
                   bySchedule>>
    /\ UNCHANGED progVars
    /\ UNCHANGED deployVars

\* a run_daily cycle that publishes, start to end: should_post_now lets it
\* through, the state is loaded, a type is selected (one of UpdateTypes), the
\* post is published, the state and the history are updated (the slot drawn
\* is the earliest, 07:30 of the next day)
CycleWithPublish ==
    /\ pc = "idle"
    /\ should_post_now(load_state(state_file, now), now)
    /\ LET doc == load_state(state_file, now)
           tid == Len(published) + 1
       IN  \E ct \in select_content_type(doc) \cap UpdateTypes :
              LET saved == update_state_after_post(
                               doc, ct, PostedCandidate(ct), tid, now,
                               schedule_next_post(now, 8, 0, -time_variance_minutes))
              IN  /\ state_file' = saved
                  /\ posts_db' = update_posts_database(
                                     posts_db, ct, PostedCandidate(ct), tid, 10,
                                     <<>>, now)
                  /\ published' =
                        Append(published,
                               [time |-> now, content |-> PostedCandidate(ct),
                                content_type |-> ct, tweet_id |-> tid,
                                validation |-> None, dupVerdict |-> "unchecked",
                                week_start_date |-> saved.week_start_date])
    /\ preState' = Some(state_file)
    /\ outcome' = "posted"
    /\ UNCHANGED <<now, prePosts, lastAttempt, lastValid, dupVerdict, dupHits,
                   dupReport, genCalls, pubCalls, bySchedule>>
    /\ UNCHANGED progVars
    /\ UNCHANGED deployVars

NextWeek ==
    \/ WeekTick
    \/ CycleWithoutPublish
    \/ CycleWithPublish

SpecWeek == InitWeek /\ [][NextWeek]_vars

----------------------------------------------------------------------------

----------------------------------------------------------------------------
(* Properties of run_daily *)

AfterLoop == pc \in {"final_checks", "post_to_x", "update_state",
                     "update_posts_db", "done"}

\* the fields update_state_after_post writes
PostFields(doc) ==
    <<doc.last_post_time, doc.last_7_days_posts, doc.recent_topics,
      doc.curated_tweet_ids, doc.next_post_scheduled>>

\* the invocation ended without a successful publish
EndedWithoutPublish == pc = "done" /\ ~IsSet(tweet_id)

\* C1: a duplicate hit is never published: when check_duplicates reported a
\* duplicate on every attempt, the last one included, the publisher is not
\* called and the run ends without a post
C1_DuplicateNeverPublished ==
    (AfterLoop /\ dupHits = max_regeneration_attempts + 1) =>
        /\ pubCalls = 0
        /\ pc \in {"final_checks", "done"}

C5_RecordsPassedAllChecks ==
    \A i \in 1..Len(posts_db) :
       \E j \in 1..Len(published) :
          /\ published[j].tweet_id = posts_db[i].post_id
          /\ published[j].content.text = posts_db[i].text
          /\ IsSet(published[j].validation)
          /\ Val(published[j].validation).ok
          /\ published[j].dupVerdict = "clean"

\* C6: when the loop is exhausted by a generator failure, a validation
\* failure or a duplicate hit, the run goes on with the backup content of the
\* type if there is one, and otherwise does not publish
C6_ExhaustedLoopFallsBack ==
    (/\ pc = "done"
     /\ attempt = max_regeneration_attempts
     /\ lastAttempt \in {"no_content", "invalid", "duplicate"}) =>
        IF IsSet(get_backup_content(content_type))
        THEN content = get_backup_content(content_type)
        ELSE pubCalls = 0 /\ state_file = Val(preState) /\ posts_db = prePosts

\* position of the invocation, counted down to its end
Rank ==
    CASE pc = "done" -> 0
      [] pc = "update_posts_db" -> 1
      [] pc = "update_state" -> 2
      [] pc = "post_to_x" -> 3
      [] pc = "final_checks" -> 4
      [] pc = "check_duplicates" -> 5 + 3 * (max_regeneration_attempts - attempt)
      [] pc = "validate" -> 6 + 3 * (max_regeneration_attempts - attempt)
      [] pc = "call_agent" -> 7 + 3 * (max_regeneration_attempts - attempt)
      [] pc = "load_state" -> 8 + 3 * max_regeneration_attempts
      [] OTHER -> 9 + 3 * max_regeneration_attempts

\* C7: an invocation calls the generator at most max_regeneration_attempts+1
\* times and the publisher at most once, a failed publish ends it, and every
\* step of it lowers a rank that is never negative, so it terminates
C7_BoundedCallsAndTermination ==
    /\ [](/\ genCalls <= max_regeneration_attempts + 1
          /\ pubCalls <= 1
          /\ Rank >= 0
          /\ (pubCalls = 1 /\ ~IsSet(tweet_id)) => pc = "done")
    /\ [][pc \notin {"idle", "done"} => Rank' < Rank]_vars

\* C7 witness: three generator calls, then one publisher call that failed
C7_Witness ==
    /\ pc = "done" /\ outcome = "publish_failed"
    /\ genCalls = max_regeneration_attempts + 1
    /\ pubCalls = 1

\* C8: no two successful publishes fall on the same local calendar date
C8_OnePublishPerDate ==
    \A i, j \in 1..Len(published) :
        i < j => DateOf(published[i].time) # DateOf(published[j].time)

\* C8 witness: a second publish, released by a reached slot, followed a
\* first
C8_Witness ==
    /\ Len(published) = 2
    /\ pc = "update_state"
    /\ bySchedule

\* C9 as claimed: a cycle started by a reached slot ends, whatever its
\* outcome, with next_post_scheduled later than the current time
C9_SlotRecomputedWhateverOutcome ==
    (pc = "done" /\ bySchedule) =>
        /\ IsSet(state_file.next_post_scheduled)
        /\ Val(state_file.next_post_scheduled) > now

\* C9 amended: a cycle started by a reached slot that publishes ends with
\* next_post_scheduled on the day after the update, later than the current
\* time; one that ends without a publish leaves the reached slot in place
C9_SlotRecomputedOnPublish ==
    (pc = "done" /\ bySchedule) =>
        IF IsSet(tweet_id)
        THEN /\ IsSet(state_file.next_post_scheduled)
             /\ Val(state_file.next_post_scheduled) > now
             /\ DateOf(Val(state_file.next_post_scheduled)) = DateOf(now) + 1
        ELSE /\ state_file.next_post_scheduled = Val(preState).next_post_scheduled
             /\ Val(state_file.next_post_scheduled) <= now

\* C9 witness: a cycle started by a reached slot has published
C9_Witness ==
    pc = "done" /\ bySchedule /\ outcome = "posted"

\* C10: with next_post_scheduled set, should_post_now is true iff the slot
\* has been reached, and run_daily goes on exactly then
C10_SlotDecidesAlone ==
    /\ IsSet(state_file.next_post_scheduled) =>
          (should_post_now(load_state(state_file, now), now)
              <=> now >= Val(state_file.next_post_scheduled))
    /\ (pc # "idle" /\ IsSet(Val(preState).next_post_scheduled)) =>
          ((pc = "done" /\ outcome = "not_time")
              <=> now < Val(Val(preState).next_post_scheduled))

\* C10 witness: the run goes on at a reached slot although the last post is
\* less than 20 hours old
C10_Witness ==
    /\ pc = "load_state"
    /\ bySchedule
    /\ now - Val(state_file.last_post_time) < MinGapHours * MinutesPerHour

----------------------------------------------------------------------------
(* Properties of should_post_now *)

\* the run was turned away by should_post_now
TurnedAway == pc = "done" /\ outcome = "not_time"

\* C11: without next_post_scheduled, should_post_now is true when there is no
\* prior post; otherwise it is false iff the last post is on the same local
\* date as now or fewer than 20 hours old: 19 hours on another date gives
\* false, exactly 20 hours and 20 hours 1 minute on another date give true
C11_GapRuleWithoutSlot ==
    (pc # "idle" /\ ~IsSet(Val(preState).next_post_scheduled)) =>
        LET last_post_time == Val(preState).last_post_time
            elapsed == now - Val(last_post_time)
            otherDate == DateOf(Val(last_post_time)) # DateOf(now)
        IN  IF ~IsSet(last_post_time)
            THEN ~TurnedAway
            ELSE /\ TurnedAway <=> (~otherDate \/ elapsed < 20 * 60)
                 /\ (otherDate /\ elapsed = 19 * 60) => TurnedAway
                 /\ (otherDate /\ elapsed = 20 * 60) => ~TurnedAway
                 /\ (otherDate /\ elapsed = 20 * 60 + 1) => ~TurnedAway

\* C11 witness: a run goes on exactly 20 hours after the last post, on the
\* next date
C11_Witness ==
    /\ pc = "load_state"
    /\ ~IsSet(Val(preState).next_post_scheduled)
    /\ IsSet(Val(preState).last_post_time)
    /\ now - Val(Val(preState).last_post_time) = 20 * 60

----------------------------------------------------------------------------
(* Properties of schedule_next_post *)

\* C12: whatever the current time and the draw of window, hour, minute and
\* jitter, the slot schedule_next_post returns lies on the calendar day
\* right after the current time and is strictly later than it
C12_SlotOnFollowingDay ==
    (pc \in {"update_posts_db", "done"} /\ IsSet(tweet_id)) =>
        /\ IsSet(state_file.next_post_scheduled)
        /\ DateOf(Val(state_file.next_post_scheduled)) = DateOf(now) + 1
        /\ Val(state_file.next_post_scheduled) > now

\* C12 witness: a post recorded at 23:59 gets the earliest slot there is,
\* 07:30 of the next day
C12_Witness ==
    /\ pc = "update_posts_db"
    /\ now % MinutesPerDay = 23 * 60 + 59
    /\ Val(state_file.next_post_scheduled) = now + 1 + 7 * 60 + 30

----------------------------------------------------------------------------
(* Properties of update_state_after_post and update_posts_database *)

\* C13: after any number n of update_state_after_post calls
\* last_7_days_posts has min(n, 7) entries, at most 7, which are the most
\* recent posts in posting order; after 10 updates it holds updates 4 to 10
C13_Last7HoldsMostRecent ==
    LET n == Len(published)
        last_7_days == state_file.last_7_days_posts
        k == MinOf(n, 7)
    IN  /\ Len(last_7_days) = k
        /\ Len(last_7_days) <= 7
        /\ \A i \in 1..k :
              /\ last_7_days[i].tweet_id = published[n - k + i].tweet_id
              /\ last_7_days[i].type = published[n - k + i].content_type
        /\ n = 10 =>
              [i \in 1..7 |-> last_7_days[i].tweet_id] = <<4, 5, 6, 7, 8, 9, 10>>

\* C13 witness: ten updates have been made and the oldest entry kept is the
\* fourth
C13_Witness ==
    /\ Len(published) = 10
    /\ Len(state_file.last_7_days_posts) = 7
    /\ state_file.last_7_days_posts[1].tweet_id = 4

\* C14: after a successful publish the state has one more last_7_days_posts
\* entry, carrying the selected type and the returned post id; week_counts
\* of the selected type has grown by 1 and the other counts are unchanged;
\* last_post_time and next_post_scheduled are set; one record with that post
\* id has been appended to the history; from the initial state the list has
\* length 1
C14_PublishRecordedOnce ==
    (pc = "done" /\ outcome = "posted") =>
        LET loaded == load_state(Val(preState), now)
            last_7_days == state_file.last_7_days_posts
            n == Len(last_7_days)
            m == Len(posts_db)
        IN  /\ last_7_days =
                  LastN(Append(loaded.last_7_days_posts, last_7_days[n]), 7)
            /\ Len(loaded.last_7_days_posts) < 7 =>
                  n = Len(loaded.last_7_days_posts) + 1
            /\ last_7_days[n].type = content_type
            /\ last_7_days[n].tweet_id = Val(tweet_id)
            /\ \A ct \in ContentTypes :
                  state_file.week_counts[ct] =
                     loaded.week_counts[ct] + (IF ct = content_type THEN 1 ELSE 0)
            /\ state_file.last_post_time = Some(now)
            /\ IsSet(state_file.next_post_scheduled)
            /\ m >= 1
            /\ posts_db[m].post_id = Val(tweet_id)
            /\ SubSeq(posts_db, 1, m - 1) =
                  Retained(prePosts, now - track_days * MinutesPerDay)
            /\ (Val(preState).last_7_days_posts = <<>> /\ prePosts = <<>>) =>
                  (n = 1 /\ m = 1)

\* C14 witness: the first publish ever has been recorded
C14_Witness ==
    /\ pc = "done" /\ outcome = "posted"
    /\ Val(preState).last_7_days_posts = <<>>
    /\ Len(state_file.last_7_days_posts) = 1
    /\ Len(posts_db) = 1

----------------------------------------------------------------------------
(* Properties of select_content_type *)

\* select_content_type has returned for the document in `state`
Selected == pc = "call_agent" /\ attempt = 0 /\ genCalls = 0

\* C15: the weights select_content_type draws from are all >= 0 and, divided
\* by their total, sum to 1: the total is positive and is their sum; the
\* type drawn has positive weight
C15_WeightsNormalized ==
    Selected =>
        LET drawn == selection_weights(Val(state))
        IN  /\ \A ct \in ContentTypes : drawn.weights[ct] >= 0
            /\ drawn.total > 0
            /\ SumOver(drawn.weights, ContentTypes) = drawn.total
            /\ drawn.weights[content_type] > 0

\* C15 witness: a selection from a history that ends in the same type twice,
\* with every type over its weekly quota
C15_Witness ==
    /\ Selected
    /\ Len(Val(state).last_7_days_posts) = 7
    /\ Val(state).last_7_days_posts[7].type = Val(state).last_7_days_posts[6].type
    /\ \A ct \in ContentTypes : Val(state).week_counts[ct] = 3

\* C16: when the last two entries of last_7_days_posts have the same type,
\* that type has weight 0, whatever week_counts and the rest of the history,
\* and is not the type selected
C16_NoThirdInARow ==
    Selected =>
        LET last_7_days == Val(state).last_7_days_posts
            n == Len(last_7_days)
        IN  (n >= 2 /\ last_7_days[n].type = last_7_days[n - 1].type) =>
                /\ selection_weights(Val(state)).weights[last_7_days[n].type] = 0
                /\ content_type # last_7_days[n].type

\* C16 witness: a selection after two news posts in a row, news not having
\* been posted before them
C16_Witness ==
    /\ Selected
    /\ Val(state).last_7_days_posts =
          [i \in 1..2 |-> [type |-> "news", date |-> 0, tweet_id |-> i]]
    /\ content_type # "news"

\* the weight rules 1, 2 and 4 alone give a type
weight_without_boost(doc, ct) ==
    LET last_7_days == doc.last_7_days_posts
        n == Len(last_7_days)
        yesterday == n >= 1 /\ last_7_days[n].type = ct
        day_before == n >= 2 /\ last_7_days[n - 1].type = ct
        over_quota == doc.week_counts[ct] * 10 > expected_weekly_tenths[ct]
        w == IF yesterday /\ day_before THEN 0
             ELSE IF yesterday THEN (base_weights[ct] * 3) \div 10
             ELSE base_weights[ct]
    IN  IF over_quota THEN w \div 2 ELSE w

\* the type's weight carries the factor 1.5 of the underuse boost
Boosted(doc, ct) ==
    /\ weight_without_boost(doc, ct) > 0
    /\ 2 * selection_weights(doc).weights[ct] = 3 * weight_without_boost(doc, ct)

\* the types of the entries of a list
TypesIn(last_7_days) == {last_7_days[i].type : i \in 1..Len(last_7_days)}

\* C17 as claimed: a type is boosted iff it appears nowhere in
\* last_7_days_posts
C17_BoostIffAbsentFromWindow ==
    Selected =>
        \A ct \in ContentTypes :
            Boosted(Val(state), ct) <=> ct \notin TypesIn(Val(state).last_7_days_posts)

\* C17 amended: a type is boosted iff it is not among the 4 most recent
\* entries of last_7_days_posts
C17_BoostIffAbsentFromLastFour ==
    Selected =>
        \A ct \in ContentTypes :
            Boosted(Val(state), ct)
                <=> ct \notin TypesIn(LastN(Val(state).last_7_days_posts, 4))

\* C17 witness: a type that is in the window, five entries back, is boosted
C17_Witness ==
    /\ Selected
    /\ Len(Val(state).last_7_days_posts) = 5
    /\ Val(state).last_7_days_posts[1].type = "image"
    /\ "image" \notin TypesIn(LastN(Val(state).last_7_days_posts, 4))
    /\ Boosted(Val(state), "image")

----------------------------------------------------------------------------
(* Properties of validate_content *)

\* the deduction for unbalanced quotes
QuoteDeduction(text) ==
    IF text.dquotes % 2 # 0 \/ text.squotes % 2 # 0 THEN 1 ELSE 0

\* C18: the length limit and the minimum score are inclusive: a text of
\* exactly 280 characters gets no length deduction, one of 281 gets -5; a
\* score of exactly 6 is valid, any lower score is invalid
C18_InclusiveBounds ==
    IsSet(lastValid) =>
        LET v == Val(lastValid)
            text == v.content.text
        IN  ~text.blank =>
               /\ v.ok <=> v.score >= 6
               /\ v.score = 6 => v.ok
               /\ v.score = 5 => ~v.ok
               /\ ~IsSet(v.content.media_path) =>
                     /\ text.chars <= 280 => v.score = 10 - QuoteDeduction(text)
                     /\ text.chars >= 281 => v.score = 5 - QuoteDeduction(text)

\* C18 witness: a text of exactly 280 characters with unbalanced quotes and
\* a missing media file scores exactly 6 and is valid
C18_Witness ==
    /\ IsSet(lastValid)
    /\ Val(lastValid).content.text.chars = 280
    /\ Val(lastValid).score = 6
    /\ Val(lastValid).ok
    /\ pc = "check_duplicates"

\* C19: for non-empty text the score is 10 minus every applicable deduction,
\* each applied independently: over-length 5, unbalanced quotes 1, missing
\* media file 3, oversized media 2, unrecognized extension 2; a missing file
\* with an unrecognized extension incurs both deductions
C19_DeductionsIndependent ==
    IsSet(lastValid) =>
        LET v == Val(lastValid)
            text == v.content.text
            media_path == v.content.media_path
            over_length == IF text.chars > 280 THEN 5 ELSE 0
            missing == IF IsSet(media_path) /\ ~v.fs.exists THEN 3 ELSE 0
            oversized == IF IsSet(media_path) /\ v.fs.oversized THEN 2 ELSE 0
            extension ==
                IF IsSet(media_path)
                   /\ Val(media_path).suffix \notin valid_extensions
                THEN 2 ELSE 0
        IN  ~text.blank =>
               v.score = 10 - over_length - QuoteDeduction(text)
                            - missing - oversized - extension

----------------------------------------------------------------------------
(* Properties of check_duplicates *)

\* check_duplicates has answered for the candidate in `content`, and the
\* history is still the one it read
DuplicatesChecked ==
    /\ dupVerdict # "unchecked"
    /\ pc \in {"call_agent", "final_checks", "post_to_x", "update_state",
                "update_posts_db"}

\* the records of the history that hold the text of the candidate
RecordsOfText == {i \in 1..Len(posts_db) : posts_db[i].text = Val(content).text}

\* C20: when the candidate's text is already recorded in the history,
\* check_duplicates answers duplicate with the exact-match reason, without
\* asking for an embedding, and would answer so whether the embedding
\* service succeeds or fails and whether or not the record has an embedding
C20_ExactMatchWithoutEmbedding ==
    (DuplicatesChecked /\ RecordsOfText # {}) =>
        /\ dupVerdict = "duplicate"
        /\ dupReport.reason = "Exact text match"
        /\ ~dupReport.embedding_requested
        /\ \A embedding \in get_embedding_outcomes(Val(content).text) :
              check_duplicates(Val(content), posts_db, embedding, now) =
                 [is_duplicate |-> TRUE, reason |-> "Exact text match"]

\* C20 witness: the text is recorded in a record that has no embedding, and
\* the candidate was reported an exact match
C20_Witness ==
    /\ DuplicatesChecked
    /\ \E i \in RecordsOfText : posts_db[i].embedding = <<>>
    /\ dupReport.reason = "Exact text match"

----------------------------------------------------------------------------
(* Properties of the posts database over time *)

\* check_duplicates has answered for the candidate in `content` against the
\* history as it is stored now
HistoryChecked == pc = "idle" /\ dupVerdict # "unchecked"

\* the publishes of the candidate's text so far
PublishesOfText ==
    {k \in 1..Len(published) : published[k].content.text = Val(content).text}

\* the record of publish k has not been pruned: no write was made 30 days
\* or more after it
StillRecorded(k) ==
    \A j \in k..Len(published) :
        published[j].time - published[k].time < track_days * MinutesPerDay

\* C21 as stated: a candidate whose text was published before is reported an
\* exact match, however long ago that was and whatever was posted since
C21_ExactMatchUnbounded ==
    (HistoryChecked /\ PublishesOfText # {}) =>
        dupReport.reason = "Exact text match"

\* C21: a candidate is reported an exact match exactly when some publish of
\* its text is still recorded, and a record stays until the first write made
\* 30 days or more after it; its age at the time of the check plays no part
C21_ExactMatchWhileRecorded ==
    HistoryChecked =>
        (dupReport.reason = "Exact text match"
            <=> \E k \in PublishesOfText : StillRecorded(k))

\* C21 witness: the only publish of the text is more than 30 days old, no
\* write has been made since, and the candidate is reported an exact match
C21_Witness ==
    /\ HistoryChecked
    /\ PublishesOfText # {}
    /\ \A k \in PublishesOfText :
          now - published[k].time > track_days * MinutesPerDay
    /\ dupReport.reason = "Exact text match"

\* the cosine of two vectors, in twentieths, rounded down (0 for an empty
\* or zero-magnitude vector): the largest c with c/20 <= dot / (|v1| |v2|)
CosineTwentieths(v1, v2) ==
    IF v1 = <<>> \/ v2 = <<>> \/ Dot(v1, v1) = 0 \/ Dot(v2, v2) = 0
       \/ Dot(v1, v2) <= 0
    THEN 0
    ELSE CHOOSE c \in 0..20 :
            /\ c * c * Dot(v1, v1) * Dot(v2, v2) <= 400 * Dot(v1, v2) * Dot(v1, v2)
            /\ \A d \in (c + 1)..20 :
                  d * d * Dot(v1, v1) * Dot(v2, v2) > 400 * Dot(v1, v2) * Dot(v1, v2)

\* the cosine of two vectors is strictly greater than 0.85 = 17/20
CosineExceeds(v1, v2) ==
    /\ CosineTwentieths(v1, v2) >= 17
    /\ 289 * Dot(v1, v1) * Dot(v2, v2) # 400 * Dot(v1, v2) * Dot(v1, v2)

\* the records check_duplicates compares embeddings with: those not older
\* than the retention window that carry an embedding
ComparedRecords ==
    {i \in 1..Len(posts_db) :
        /\ posts_db[i].posted_at >= now - track_days * MinutesPerDay
        /\ posts_db[i].embedding # <<>>}

\* C22: when no record holds the candidate's text, check_duplicates reports
\* a semantic duplicate exactly when the candidate's embedding came back
\* non-empty and its cosine with the embedding of some record inside the
\* retention window is strictly greater than 0.85
C22_SemanticIffAboveThreshold ==
    (HistoryChecked /\ ~exact_text_match(Val(content), posts_db)) =>
        (dupReport.reason = "Semantic similarity"
            <=> /\ dupReport.embedding # <<>>
                /\ \E i \in ComparedRecords :
                      CosineExceeds(dupReport.embedding, posts_db[i].embedding))

\* C22 witness: a candidate whose embedding has cosine 0.9 (18/20) with a
\* record's is reported a semantic duplicate
C22_Witness ==
    /\ HistoryChecked
    /\ dupReport.reason = "Semantic similarity"
    /\ \E i \in ComparedRecords :
          /\ CosineTwentieths(dupReport.embedding, posts_db[i].embedding) = 18
          /\ 324 * Dot(dupReport.embedding, dupReport.embedding)
                 * Dot(posts_db[i].embedding, posts_db[i].embedding)
             = 400 * Dot(dupReport.embedding, posts_db[i].embedding)
                   * Dot(dupReport.embedding, posts_db[i].embedding)

\* the source-post identifier the candidate's metadata names, if any
SourceOfCandidate == Val(content).metadata.original_tweet_id

\* the records of the history whose metadata names the candidate's source
RecordsOfSource ==
    {i \in 1..Len(posts_db) :
        posts_db[i].metadata.original_tweet_id = SourceOfCandidate}

\* C23: a candidate that names a source post which a record of the history
\* names too is reported a duplicate, whatever the embedding service returns
\* and also when no record holds its text; a candidate that names no source
\* post is never reported for the source-post reason
C23_SameSourceFlagged ==
    DuplicatesChecked =>
        /\ (IsSet(SourceOfCandidate) /\ RecordsOfSource # {}) =>
              /\ dupVerdict = "duplicate"
              /\ \A embedding \in get_embedding_outcomes(Val(content).text) :
                    check_duplicates(Val(content), posts_db, embedding, now).is_duplicate
              /\ (RecordsOfText = {} /\ dupReport.embedding = <<>>) =>
                    dupReport.reason = "Same source tweet already curated"
        /\ ~IsSet(SourceOfCandidate) =>
              \A embedding \in get_embedding_outcomes(Val(content).text) :
                 check_duplicates(Val(content), posts_db, embedding, now).reason
                    # "Same source tweet already curated"

\* C23 witness: the candidate's text is in no record and no embedding came
\* back for it, and it is reported a duplicate because a record names the
\* same source post
C23_Witness ==
    /\ DuplicatesChecked
    /\ IsSet(SourceOfCandidate)
    /\ RecordsOfText = {}
    /\ dupReport.embedding_requested
    /\ dupReport.embedding = <<>>
    /\ dupReport.reason = "Same source tweet already curated"

\* the cutoff of the latest update_posts_database call
LastCutoff == published[Len(published)].time - track_days * MinutesPerDay

\* the publishes that were newer than the cutoff at the latest call
InsideWindow == {k \in 1..Len(published) : published[k].time > LastCutoff}

\* C24: after every update_posts_database call the history ends with the
\* record just appended, holds no record older than the retention window,
\* and holds the records of all publishes inside the window, in the order
\* in which they were appended
C24_WindowKeptInOrder ==
    published # <<>> =>
        /\ posts_db # <<>>
        /\ posts_db[Len(posts_db)].post_id = Len(published)
        /\ posts_db[Len(posts_db)].posted_at = published[Len(published)].time
        /\ \A i \in 1..Len(posts_db) : posts_db[i].posted_at >= LastCutoff
        /\ \A k \in InsideWindow :
              \E i \in 1..Len(posts_db) :
                 /\ posts_db[i].post_id = k
                 /\ posts_db[i].posted_at = published[k].time
                 /\ posts_db[i].text = published[k].content.text
        /\ \A i, j \in 1..Len(posts_db) :
              i < j => posts_db[i].post_id < posts_db[j].post_id

\* C24 witness: the latest call pruned a record and kept two, the older of
\* them from an earlier call
C24_Witness ==
    /\ Len(published) = 3
    /\ Len(posts_db) = 2
    /\ posts_db[1].post_id = 2
    /\ posts_db[1].posted_at < posts_db[2].posted_at

----------------------------------------------------------------------------
(* Properties of run_weekly_analysis *)

\* a pass of run_weekly_analysis has just ended
Analysed == outcome = "analysed"

\* the fields of the state document other than engagement_by_type that the
\* claim names, and the rest
FrameOf(doc) ==
    <<doc.week_counts, doc.week_start_date, doc.last_post_time,
      doc.last_7_days_posts, doc.next_post_scheduled, doc.recent_topics,
      doc.curated_tweet_ids, doc.preferred_time_windows>>

\* C25 as stated: the pass leaves every field but engagement_by_type as it
\* was, and the history too
C25_OnlyEngagementChanges ==
    Analysed =>
        /\ FrameOf(state_file) = FrameOf(Val(preState))
        /\ posts_db = prePosts

\* C25: the pass leaves the history alone, and leaves every field of the
\* state document but engagement_by_type as load_state returns it: as it
\* was, except that week_counts is zeroed and week_start_date moved to
\* today when load_state finds the week over
C25_OnlyEngagementAndWeekReset ==
    Analysed =>
        /\ FrameOf(state_file) = FrameOf(load_state(Val(preState), now))
        /\ state_file.last_post_time = Val(preState).last_post_time
        /\ state_file.last_7_days_posts = Val(preState).last_7_days_posts
        /\ state_file.next_post_scheduled = Val(preState).next_post_scheduled
        /\ (state_file.week_counts # Val(preState).week_counts
            \/ state_file.week_start_date # Val(preState).week_start_date) =>
              /\ state_file.week_counts = ZeroCounts
              /\ state_file.week_start_date = DateOf(now)
        /\ posts_db = prePosts

\* C25 witness: a pass that began a new week
C25_Witness ==
    /\ Analysed
    /\ Val(preState).week_counts # ZeroCounts
    /\ state_file.week_counts = ZeroCounts
    /\ state_file.week_start_date # Val(preState).week_start_date

\* the records of a type dated within the 7 days before the pass
RecentOfType(ct) ==
    {i \in 1..Len(posts_db) :
        /\ posts_db[i].content_type = ct
        /\ posts_db[i].posted_at >= now - AnalysisDays * MinutesPerDay}

\* the total of an engagement field over a set of records
TotalOf(field, S) == SumOver([i \in S |-> posts_db[i].engagement[field]], S)

\* the fraction q equals total / n
IsMean(q, total, n) == q.den > 0 /\ q.num * n = q.den * total

\* C26: after a pass, for every content type, count is the number of its
\* records dated within the last 7 days and avg_likes and avg_rt are the
\* arithmetic means of their likes and retweets (three records with likes
\* 10, 20 and 30 give exactly 20); a type without such a record has count
\* 0 and both averages 0
C26_MeansOverLastWeek ==
    Analysed =>
        \A ct \in ContentTypes :
            LET S == RecentOfType(ct)
                e == state_file.engagement_by_type[ct]
            IN  /\ e.count = Cardinality(S)
                /\ IF S = {}
                   THEN e.avg_likes = 0 /\ e.avg_rt = 0
                   ELSE /\ IsMean(e.avg_likes, TotalOf("likes", S), Cardinality(S))
                        /\ IsMean(e.avg_rt, TotalOf("retweets", S), Cardinality(S))
                /\ (Cardinality(S) = 3
                    /\ {posts_db[i].engagement.likes : i \in S} = {10, 20, 30}) =>
                      e.avg_likes = [num |-> 20, den |-> 1]

\* C26 witness: three news records of the last 7 days with likes 10, 20 and
\* 30 gave count 3 and avg_likes 20, and the type without records count 0
C26_Witness ==
    /\ Analysed
    /\ Cardinality(RecentOfType("news")) = 3
    /\ {posts_db[i].engagement.likes : i \in RecentOfType("news")} = {10, 20, 30}
    /\ state_file.engagement_by_type["news"].count = 3
    /\ state_file.engagement_by_type["news"].avg_likes = [num |-> 20, den |-> 1]
    /\ state_file.engagement_by_type["meme"].count = 0

----------------------------------------------------------------------------
(* Properties of load_state *)

\* a load_state call has just returned
Loaded == outcome = "loaded"

\* minutes from the midnight that began week_start_date of doc to time t
SinceWeekStart(doc, t) == t - doc.week_start_date * MinutesPerDay

\* C27: load_state zeroes week_counts and moves week_start_date to today
\* exactly when 7 days or more have passed since week_start_date, and
\* otherwise returns the stored document and leaves the file as it is; the
\* keys of week_counts are always the four content types
C27_ResetIffWeekElapsed ==
    /\ Loaded =>
          IF SinceWeekStart(Val(preState), now) >= WeekLengthDays * MinutesPerDay
          THEN /\ Val(state).week_counts = ZeroCounts
               /\ Val(state).week_start_date = DateOf(now)
               /\ state_file = Val(state)
          ELSE /\ Val(state) = Val(preState)
               /\ state_file = Val(preState)
    /\ DOMAIN state_file.week_counts = ContentTypes

----------------------------------------------------------------------------
(* Properties of the entry point *)

\* every credential the mode needs is set: the OpenAI key, and outside a
\* dry run the X credentials
ConfigurationComplete ==
    /\ environ.OPENAI_API_KEY
    /\ process.dry_run \/ environ.X_CREDENTIALS

\* some run logic has executed in this process: the scheduler check, the
\* selection, a generator call or a publish attempt
RunLogicExecuted ==
    \/ pc # "idle"
    \/ IsSet(preState)
    \/ content_type # "none"
    \/ genCalls > 0
    \/ pubCalls > 0

\* C28: in a process whose configuration is incomplete no run logic ever
\* executes: construction fails first
C28_IncompleteConfigurationIsFatal ==
    ~ConfigurationComplete => ~RunLogicExecuted

\* the process has ended
Exited == process.at = "exited"

\* which of the four outcomes the process ended in
OutcomeOccurred ==
    IF process.exit_status = Some(1) /\ ~RunLogicExecuted THEN "error"
    ELSE IF outcome = "posted" THEN "success"
    ELSE IF outcome = "not_time" THEN "no-op"
    ELSE IF outcome \in {"no_content", "invalid_final"} THEN "aborted"
    ELSE "error"

\* what the entry point reports to its caller: status 1 after an exception,
\* status 0 ("COMPLETED SUCCESSFULLY") otherwise
OutcomeReported ==
    IF process.exit_status = Some(0) THEN "success" ELSE "error"

\* C29: when the process has ended, what it reports is the outcome that
\* occurred
C29_OutcomeReported ==
    Exited => OutcomeReported = OutcomeOccurred

----------------------------------------------------------------------------
(* Properties of overlapping invocations *)

\* the running invocation saves the state document (line 957)
SaveStep ==
    /\ pc = "update_state"
    /\ pc' = "update_posts_db"
    /\ other' = other

\* both invocations have published and recorded their post
BothPosted == outcome = "posted" /\ other.outcome = "posted"

\* C30: nothing keeps two invocations apart.  Each save of the state
\* document writes the document the invocation loaded at its start with its
\* own post added, whatever another invocation has saved in between; and
\* when both have posted, the stored document is the one of the invocation
\* that saved last, untouched by the other
C30_SavesAreNotMerged ==
    /\ [][SaveStep =>
            /\ state_file' = Val(state')
            /\ state_file'.last_7_days_posts =
                  LastN(Append(Val(state).last_7_days_posts,
                               [type |-> content_type, date |-> DateOf(now),
                                tweet_id |-> Val(tweet_id)]),
                        Last7Cap)
            /\ state_file'.week_counts =
                  [Val(state).week_counts EXCEPT ![content_type] = @ + 1]]_vars
    /\ [](BothPosted => state_file \in {Val(state), Val(other.state)})

\* C30 witness: both invocations passed should_post_now on a store that
\* held no post, both published at the same time, and the stored document
\* records one post only
C30_Witness ==
    /\ BothPosted
    /\ Val(preState).last_post_time = None
    /\ Val(other.preState).last_post_time = None
    /\ Len(published) = 2
    /\ published[1].time = published[2].time
    /\ Len(state_file.last_7_days_posts) = 1
    /\ SumOver(state_file.week_counts, ContentTypes) = 1
    /\ \E k \in 1..2 :
          \A i \in 1..Len(state_file.last_7_days_posts) :
             state_file.last_7_days_posts[i].tweet_id # published[k].tweet_id

----------------------------------------------------------------------------
(* Properties of the weekly quota, the topics and the weekly counters *)

\* the weight rules 1, 2 and 3 alone give a type
weight_before_quota(doc, ct) ==
    LET last_7_days == doc.last_7_days_posts
        n == Len(last_7_days)
        yesterday == n >= 1 /\ last_7_days[n].type = ct
        day_before == n >= 2 /\ last_7_days[n - 1].type = ct
        w == IF yesterday /\ day_before THEN 0
             ELSE IF yesterday THEN (base_weights[ct] * 3) \div 10
             ELSE base_weights[ct]
    IN  IF ct \notin TypesIn(LastN(last_7_days, 4)) THEN (w * 3) \div 2 ELSE w

\* the specified quota rule: the count exceeds base weight x 7
ExceedsShareOfSeven(doc, ct) ==
    doc.week_counts[ct] * WeightScale > base_weights[ct] * WeekLengthDays

\* C31: for every type and every count, select_content_type halves the
\* weight exactly when the count exceeds base weight x 7: the hard-coded
\* table 2.5, 2.1, 1.4, 1.0 decides as 2.45, 2.10, 1.40, 1.05 does
C31_TableAgreesWithShareOfSeven ==
    Selected =>
        \A ct \in ContentTypes :
            /\ (Val(state).week_counts[ct] * 10 > expected_weekly_tenths[ct])
                  <=> ExceedsShareOfSeven(Val(state), ct)
            /\ adjusted_weight(Val(state), ct) =
                  IF ExceedsShareOfSeven(Val(state), ct)
                  THEN weight_before_quota(Val(state), ct) \div 2
                  ELSE weight_before_quota(Val(state), ct)

\* C31 witness: a selection with news at 3 (damped) and 2 (not damped by
\* 2.5 nor by 2.45) is covered by one with news at 3, image at 1 and meme at
\* 2: news and meme are halved, image and curator are not
C31_Witness ==
    /\ Selected
    /\ Val(state).last_7_days_posts = <<>>
    /\ Val(state).week_counts =
          [ct \in ContentTypes |->
              CASE ct = "news" -> 3 [] ct = "curator" -> 2
                [] ct = "meme" -> 2 [] ct = "image" -> 1]
    /\ adjusted_weight(Val(state), "news") * 2 = weight_before_quota(Val(state), "news")
    /\ adjusted_weight(Val(state), "meme") * 2 = weight_before_quota(Val(state), "meme")
    /\ adjusted_weight(Val(state), "curator") = weight_before_quota(Val(state), "curator")
    /\ adjusted_weight(Val(state), "image") = weight_before_quota(Val(state), "image")


\* rule 2 applies to a type: the last two posts of the history are of it
Vetoed(doc, ct) ==
    LET n == Len(doc.last_7_days_posts)
    IN  /\ n >= 2
        /\ doc.last_7_days_posts[n].type = ct
        /\ doc.last_7_days_posts[n - 1].type = ct

\* the sum of the weights before normalization (line 384)
TotalBeforeNormalization(doc) ==
    SumOver([ct \in ContentTypes |-> adjusted_weight(doc, ct)], ContentTypes)

\* C32: whatever the history and the counters, every type but the vetoed one
\* keeps a strictly positive weight and can be selected, so the total before
\* normalization is positive and the weights are never reset to the base
\* weights
C32_OnlyTheVetoedTypeIsExcluded ==
    Selected =>
        /\ \A ct \in ContentTypes :
              ~Vetoed(Val(state), ct) =>
                  /\ adjusted_weight(Val(state), ct) > 0
                  /\ ct \in select_content_type(Val(state))
        /\ TotalBeforeNormalization(Val(state)) > 0
        /\ selection_weights(Val(state)).weights =
              [ct \in ContentTypes |-> adjusted_weight(Val(state), ct)]

\* C32 witness: news was posted twice in a row and every counter is over its
\* quota: news is excluded, the type with the smallest weight, image, is the
\* one selected
C32_Witness ==
    /\ Selected
    /\ Vetoed(Val(state), "news")
    /\ \A ct \in ContentTypes :
          Val(state).week_counts[ct] * 10 > expected_weekly_tenths[ct]
    /\ adjusted_weight(Val(state), "news") = 0
    /\ content_type = "image"


RECURSIVE TopicsAppended(_)
\* the topic tokens the posts of a sequence have appended, in order: up to
\* three capitalised words of more than 3 characters from each text
TopicsAppended(posts) ==
    IF posts = <<>> THEN <<>>
    ELSE LET p == posts[Len(posts)]
             words == SelectSeq(p.content.text.words,
                                LAMBDA w : w.len > 3 /\ w.upper)
         IN  TopicsAppended(SubSeq(posts, 1, Len(posts) - 1))
                \o [i \in 1..MinOf(Len(words), 3) |-> words[i].w]

RECURSIVE SourceIdsAppended(_)
\* the source-post ids of the curator posts of a sequence, in order
SourceIdsAppended(posts) ==
    IF posts = <<>> THEN <<>>
    ELSE LET p == posts[Len(posts)]
             rest == SourceIdsAppended(SubSeq(posts, 1, Len(posts) - 1))
         IN  IF p.content_type = "curator"
                /\ p.content.metadata.original_tweet_id # <<>>
             THEN Append(rest, p.content.metadata.original_tweet_id[1])
             ELSE rest

\* C33: after any sequence of update_state_after_post calls recent_topics
\* has at most 10 entries and is the end of the sequence of all topic tokens
\* appended, in order; curated_tweet_ids has at most 50 entries and is the
\* end of the sequence of the source-post ids of the curator posts that
\* carried one
C33_TopicsAndCuratedIdsAreBoundedSuffixes ==
    LET topics == Val(preState).recent_topics \o TopicsAppended(published)
        ids == Val(preState).curated_tweet_ids \o SourceIdsAppended(published)
        recent == state_file.recent_topics
        curated == state_file.curated_tweet_ids
    IN  /\ Len(recent) <= 10
        /\ Len(recent) = MinOf(Len(topics), 10)
        /\ \A i \in 1..Len(recent) :
              recent[i] = topics[Len(topics) - Len(recent) + i]
        /\ Len(curated) <= 50
        /\ Len(curated) = MinOf(Len(ids), 50)
        /\ \A i \in 1..Len(curated) :
              curated[i] = ids[Len(ids) - Len(curated) + i]

\* C33 witness: four posts of three topics each have pushed the first two
\* tokens out of a list of ten, and a second source-post id has pushed the
\* oldest out of a list of 49 ids
C33_Witness ==
    /\ Len(published) >= 4
    /\ Len(TopicsAppended(published)) = 12
    /\ Len(state_file.recent_topics) = 10
    /\ state_file.recent_topics[1] = "Daily"
    /\ Len(Val(preState).curated_tweet_ids) = 49
    /\ Len(SourceIdsAppended(published)) = 2
    /\ Len(state_file.curated_tweet_ids) = 50
    /\ state_file.curated_tweet_ids[1] = <<"tw", 2>>
    /\ \E i \in 1..Len(published) :
          /\ published[i].content_type = "news"
          /\ published[i].content.metadata.original_tweet_id # <<>>


----------------------------------------------------------------------------
(* Properties of the distance between publishes *)

\* the earliest slot of a day: 08:00 less the largest jitter, 07:30
EarliestSlotOfDay == 8 * 60 - 30

----------------------------------------------------------------------------
(* Properties of a weekly analysis overlapping a daily run *)

\* the daily run has published and recorded, the analysis pass has saved
BothFinished == pc = "done" /\ outcome = "posted" /\ other.outcome = "analysed"

\* the stored document shows the post of the daily run
PostInState ==
    LET last_7_days == state_file.last_7_days_posts
        n == Len(last_7_days)
    IN  /\ state_file.last_post_time = <<now>>
        /\ n >= 1
        /\ last_7_days[n].tweet_id = tweet_id[1]
        /\ last_7_days[n].type = content_type
        /\ state_file.week_counts[content_type] =
              StoredWeek.week_counts[content_type] + 1
        /\ state_file.next_post_scheduled = state[1].next_post_scheduled

\* the stored document shows the averages of the pass: the news records it
\* loaded (the one of 10 likes and 1 retweet, and the new one, without any,
\* when the daily run had recorded it) and their means
AnalysisInState ==
    LET n == Cardinality({i \in 1..Len(other.prePosts) :
                             other.prePosts[i].content_type = "news"})
        e == state_file.engagement_by_type["news"]
    IN  /\ n >= 1
        /\ e.count = n
        /\ e.avg_likes.num * n = e.avg_likes.den * 10
        /\ e.avg_rt.num * n = e.avg_rt.den * 1

\* two documents are the same: the same fields outside engagement_by_type,
\* and the same record counts inside it (0 before a pass)
SameDocument(a, b) ==
    /\ FrameOf(a) = FrameOf(b)
    /\ \A ct \in ContentTypes :
          a.engagement_by_type[ct].count = b.engagement_by_type[ct].count

\* the document the daily run saved, and the one the pass saved
DailyDocument == state[1]
AnalysisDocument ==
    [other.state[1] EXCEPT
        !.engagement_by_type = weekly_engagement(other.prePosts, now)]

\* C35 as stated: after a run_weekly_analysis pass and a run_daily cycle
\* that overlap have both finished, the state shows the published post and
\* the engagement averages of the analysis
C35_OverlappingAnalysisLosesNothing ==
    BothFinished => (PostInState /\ AnalysisInState)

\* C35 amended: after both have finished the stored document is the whole
\* document of whichever saved last; it shows the post when the daily run
\* saved last and the averages when the pass saved last, and it shows both
\* only when the one that saved last had loaded what the other saved
C35_LastWholeDocumentSaveWins ==
    BothFinished =>
        /\ \/ SameDocument(state_file, DailyDocument)
           \/ SameDocument(state_file, AnalysisDocument)
        /\ SameDocument(state_file, DailyDocument) => PostInState
        /\ SameDocument(state_file, AnalysisDocument) => AnalysisInState
        /\ (PostInState /\ AnalysisInState) =>
              \/ other.state[1].last_post_time = <<now>>
              \/ DailyDocument.engagement_by_type["news"].count >= 1

\* C35 witness: the pass loaded the document before the daily run saved its
\* update and saved after it: the stored document has the averages and none
\* of the post, which the history holds
C35_Witness ==
    /\ BothFinished
    /\ AnalysisInState
    /\ state_file.last_post_time = StoredWeek.last_post_time
    /\ state_file.last_7_days_posts = StoredWeek.last_7_days_posts
    /\ state_file.week_counts = StoredWeek.week_counts
    /\ state_file.next_post_scheduled = StoredWeek.next_post_scheduled
    /\ Len(published) = 1
    /\ posts_db[Len(posts_db)].post_id = tweet_id[1]


----------------------------------------------------------------------------
(* Properties of the worker loop *)

\* a cycle has ended without a publish: no candidate, a failed final
\* validation, or a failed publish
CycleAborted ==
    pc = "done" /\ outcome \in {"no_content", "invalid_final", "publish_failed"}

\* should_post_now would return true now
PostDue == should_post_now(load_state(state_file, now), now)

\* a post has been published and recorded and the next slot is set, ahead
PublishedAndScheduled ==
    /\ published # <<>>
    /\ state_file.last_post_time = <<published[Len(published)].time>>
    /\ state_file.next_post_scheduled # <<>>
    /\ state_file.next_post_scheduled[1] > published[Len(published)].time

\* C36: after a cycle that aborted, should_post_now returns true at every
\* later time until a post is published, so every wake-up of the worker
\* tries again; and once the generator gives a valid candidate that is no
\* duplicate and the publisher succeeds, a post is published and the next
\* slot scheduled
C36_AbortedCycleIsRetriedUntilPublished ==
    /\ [](CycleAborted => [](published = <<>> => PostDue))
    /\ (CycleAborted ~> PublishedAndScheduled)

\* C36 witness: the cycle released by the slot reached at the second
\* wake-up has aborted on a failed publish, and nothing has been published
C36_Witness ==
    /\ CycleAborted
    /\ now = FirstWakeUp + SleepMinutes
    /\ preState # <<>>
    /\ preState[1].next_post_scheduled = <<now>>
    /\ outcome = "publish_failed"
    /\ published = <<>>


----------------------------------------------------------------------------
(* Properties of the records run_daily writes *)

\* a generated candidate was over the length limit in the present cycle
OverLengthGenerated ==
    lastValid # <<>> /\ lastValid[1].content.text.chars > 280

\* C37: every record of the history has a text that is not empty, of at most
\* 280 characters, and a recorded quality_score of at least 6; no text over
\* 280 characters is ever handed to the publisher or published: its score is
\* at most 5
C37_RecordsAreShortAndScoredSix ==
    /\ \A i \in 1..Len(posts_db) :
          /\ ~posts_db[i].text.blank
          /\ posts_db[i].text.chars >= 1
          /\ posts_db[i].text.chars <= 280
          /\ posts_db[i].quality_score >= 6
          /\ posts_db[i].quality_score <= 10
    /\ \A i \in 1..Len(published) : published[i].content.text.chars <= 280
    /\ (pc = "post_to_x" => content[1].text.chars <= 280)
    /\ OverLengthGenerated => (lastValid[1].score <= 5 /\ ~lastValid[1].ok)

\* C37 witness: the last candidate of a cycle was over 280 characters, was
\* validated a last time with score 5, and the cycle has ended without a record
C37_Witness ==
    /\ pc = "done"
    /\ outcome = "invalid_final"
    /\ OverLengthGenerated
    /\ content[1].text.chars = 281
    /\ lastValid[1].score = 5
    /\ posts_db = prePosts
    /\ \E j \in 1..Len(posts_db) : posts_db[j].quality_score = 7


\* the positions of the history records that carry the caption of image posts
CaptionRecords ==
    {i \in 1..Len(posts_db) : posts_db[i].text.id = "The future of AI agents >"}

\* the present cycle selected image and began with an image post in history
ImageRunAfterImagePost ==
    /\ pc \notin {"idle", "load_state"}
    /\ content_type = "image"
    /\ \E i \in 1..Len(prePosts) : prePosts[i].content_type = "image"

\* C38 as stated: image candidates carry one fixed caption; while an image
\* post is in history every candidate of a later cycle that selected image
\* and was checked is reported an exact-text duplicate, and the cycle ends
\* without publishing: the caption is never in history twice
C38_ImageCaptionNotPublishedTwice ==
    /\ (ImageRunAfterImagePost /\ dupVerdict # "unchecked") =>
          /\ content[1].text.id = "The future of AI agents >"
          /\ dupVerdict = "duplicate"
          /\ dupReport.reason = "Exact text match"
    /\ ImageRunAfterImagePost => outcome # "posted"
    /\ Cardinality(CaptionRecords) <= 1


----------------------------------------------------------------------------
(* Properties of the weekly counters over the weeks *)

\* the publishes of a type made since the weekly counters were last reset:
\* those made in the week that began on the stored week_start_date
PublishesThisWeek(ct) ==
    Cardinality({i \in 1..Len(published) :
                    /\ published[i].content_type = ct
                    /\ published[i].week_start_date = state_file.week_start_date})

\* C39: between the cycles of run_daily called one after another,
\* week_counts of every type is the number of publishes of that type since
\* the last weekly reset, no count is negative, and the counts of a week add
\* up to 7 at most
C39_WeekCountsCountThisWeeksPublishes ==
    /\ \A ct \in {"news", "curator", "meme", "image"} :
          /\ state_file.week_counts[ct] = PublishesThisWeek(ct)
          /\ state_file.week_counts[ct] >= 0
    /\ state_file.week_counts["news"] + state_file.week_counts["curator"]
          + state_file.week_counts["meme"] + state_file.week_counts["image"] <= 7

\* C39 witness: a post on each of the seven days of the first week brought
\* the counters to 7 in all; and the next cycle has reset them
C39_Witness ==
    /\ Len(published) = 7
    /\ now = 6 * 24 * 60 + 23 * 60 + 50
    /\ preState # <<>>
    /\ preState[1].week_counts["news"] + preState[1].week_counts["curator"] = 7
    /\ preState[1].week_start_date = 0
    /\ state_file.week_start_date = 6
    /\ state_file.week_counts["news"] = 0
    /\ state_file.week_counts["curator"] = 0

============================================================================
